---- MODULE Spec2Model ----
(***************************************************************************)
(* Model of server.js, the request handler layer of the internship         *)
(* tracker API.  The data store (Supabase/PostgREST) is modelled by its    *)
(* contract: every call is atomic, takes full effect or reports an error   *)
(* without effect, and .single() reports PGRST116 unless exactly one row   *)
(* comes back.  A handler is a sequence of data-store calls; with several  *)
(* requests in flight the calls of different requests interleave at the    *)
(* handlers' await points.                                                 *)
(*                                                                         *)
(* JavaScript scalars are encoded as strings so that one field can hold    *)
(* undefined, null, a number, a boolean or text: "undefined", "null",      *)
(* "0", "5", "false", "true", "" and any other string for text.            *)
(***************************************************************************)
EXTENDS Integers, Sequences, FiniteSets, TLC

VARIABLES db, nextId, clock, req, resp

vars == <<db, nextId, clock, req, resp>>

-----------------------------------------------------------------------------
(* Bounds *)

MaxId == 2          \* rows the data store generates an id for in one run
MaxClock == 2       \* distinct clock readings
MaxInFlight == 2    \* requests that may overlap

Slots == 1..MaxInFlight

-----------------------------------------------------------------------------
(* JavaScript values *)

\* !v in JavaScript
Falsy(v) == v \in {"undefined", "null", "", "0", "false"}

\* a || d in JavaScript
OrElse(a, d) == IF Falsy(a) THEN d ELSE a

\* a response payload of null
NullData == [isNull |-> TRUE]

\* the number a numeric string stands for
NumOf(v) == CHOOSE n \in 0..200 : ToString(n) = v

-----------------------------------------------------------------------------
(* The data store *)

Tables == {"todos", "habits", "habit_entries", "daily_logs_piyush",
           "daily_logs_shruti", "cp_ratings", "contest_logs", "a2z_progress",
           "blind75", "courses", "certificates", "resume_sections",
           "projects", "skills", "case_studies", "guesstimates",
           "case_competitions"}

\* the columns the handlers name for each table, plus the generated ones
Columns(t) ==
  {"id", "created_at"} \cup
  CASE t = "todos" -> {"profile", "content"}
    [] t = "habits" -> {"profile", "name", "sort_order"}
    [] t = "habit_entries" -> {"habit_id", "date", "completed"}
    [] t = "daily_logs_piyush" -> {"date", "dsa_questions_solved", "notes"}
    [] t = "daily_logs_shruti" -> {"date", "python_questions_solved",
                                   "sql_questions_solved", "notes"}
    [] t = "cp_ratings" -> {"platform", "rating", "updated_at"}
    [] t = "contest_logs" -> {"platform", "contest_name", "date",
                              "problems_solved", "total_problems", "notes"}
    [] t = "a2z_progress" -> {"easy_total", "easy_solved", "medium_total",
                              "medium_solved", "hard_total", "hard_solved"}
    [] t = "blind75" -> {"question_name", "solution_link", "completed"}
    [] t = "courses" -> {"profile", "course_name", "platform",
                         "total_content", "completed_content"}
    [] t = "certificates" -> {"profile", "title", "issuer", "date", "file_url"}
    [] t = "resume_sections" -> {"sort_order"}
    [] t = "projects" -> {"profile", "project_name", "description", "notes"}
    [] t = "skills" -> {"profile", "skill_name", "notes"}
    [] t = "case_studies" -> {"title", "notes", "date"}
    [] t = "guesstimates" -> {"topic", "learnings", "notes"}
    [] t = "case_competitions" -> {"competition_name", "notes", "document_url"}

\* the buckets of the object store, reached through the same client
Buckets == {"storage/certificates", "storage/documents"}

EmptyDb == [t \in Tables \cup Buckets |-> {}]

\* the outcome of one data-store call
Ok(data, newDb) == [ok |-> TRUE, data |-> data, code |-> "", message |-> "",
                    db |-> newDb]
Err(code, message, oldDb) == [ok |-> FALSE, data |-> NullData, code |-> code,
                              message |-> message, db |-> oldDb]

BackendDown(d) == Err("FETCH", "backend error", d)
NotSingle(d) == Err("PGRST116", "JSON object requested, multiple (or no) rows returned", d)

\* the message of the error a call reported, null for none; the no-row
\* result of .single() counts as none
Failure(r) == IF r.ok \/ r.code = "PGRST116" THEN "null" ELSE r.message

\* JSON.stringify drops the keys whose value is undefined
Supplied(obj) == {k \in DOMAIN obj : obj[k] # "undefined"}

\* the row the store builds for an inserted object
NewRow(t, obj, id, now) ==
  [c \in Columns(t) |->
     IF c = "id" THEN ToString(id)
     ELSE IF c = "created_at" THEN ToString(now)
     ELSE IF c \in Supplied(obj) THEN obj[c]
     ELSE "null"]

\* an insert that stores the row although it reports an error
Insert_KeepOnError(d, t, obj, id, now, fail) ==
  IF ~(Supplied(obj) \subseteq Columns(t))
  THEN BackendDown(d)
  ELSE LET row == NewRow(t, obj, id, now)
       IN IF fail
          THEN BackendDown([d EXCEPT ![t] = @ \cup {row}])
          ELSE Ok(row, [d EXCEPT ![t] = @ \cup {row}])

\* supabase.from(t).insert(obj).select().single()
Insert(d, t, obj, id, now, fail) ==
  IF fail \/ ~(Supplied(obj) \subseteq Columns(t))
  THEN BackendDown(d)
  ELSE LET row == NewRow(t, obj, id, now)
       IN Ok(row, [d EXCEPT ![t] = @ \cup {row}])

\* a row after an update with the supplied fields
Patched_Replace(row, updates) ==
  [c \in DOMAIN row |-> IF c \in Supplied(updates) THEN updates[c]
                        ELSE IF c = "id" THEN row[c] ELSE "null"]

Patched(row, updates) ==
  [c \in DOMAIN row |-> IF c \in Supplied(updates) THEN updates[c] ELSE row[c]]

Update_NoSingle(d, t, updates, col, val, fail) ==
  LET hit == {r \in d[t] : r[col] = val}
  IN IF fail \/ ~(Supplied(updates) \subseteq Columns(t))
     THEN BackendDown(d)
     ELSE IF hit = {}
     THEN Ok(NullData, d)
     ELSE IF Cardinality(hit) # 1
     THEN NotSingle(d)
     ELSE LET old == CHOOSE r \in hit : TRUE
              new == Patched(old, updates)
          IN Ok(new, [d EXCEPT ![t] = (@ \ {old}) \cup {new}])

\* supabase.from(t).update(updates).eq(col, val).select().single():
\* a result of other than one row is an error and the update is rolled back
Update(d, t, updates, col, val, fail) ==
  LET hit == {r \in d[t] : r[col] = val}
  IN IF fail \/ ~(Supplied(updates) \subseteq Columns(t))
     THEN BackendDown(d)
     ELSE IF Cardinality(hit) # 1
     THEN NotSingle(d)
     ELSE LET old == CHOOSE r \in hit : TRUE
              new == Patched(old, updates)
          IN Ok(new, [d EXCEPT ![t] = (@ \ {old}) \cup {new}])

\* supabase.from(t).delete().eq(col, val)
Delete_NoFilter(d, t, col, val, fail) ==
  IF fail THEN BackendDown(d)
  ELSE Ok(NullData, [d EXCEPT ![t] = {}])

Delete(d, t, col, val, fail) ==
  IF fail THEN BackendDown(d)
  ELSE Ok(NullData, [d EXCEPT ![t] = {r \in @ : r[col] # val}])

\* supabase.from(t).select("*") [.eq(col, val)] .single()
SelectSingle(d, rows, fail) ==
  IF fail THEN BackendDown(d)
  ELSE IF Cardinality(rows) # 1 THEN NotSingle(d)
  ELSE Ok(CHOOSE r \in rows : TRUE, d)

-----------------------------------------------------------------------------
(* Requests and responses *)

Idle == [op |-> "idle"]
NoResp == [op |-> "none"]

\* res.status(status).json({success, data, error}), with the request it
\* answers: key is the route or query parameter, body the request body,
\* calls the data-store calls the request issued and pre the store when the
\* request arrived
Response(op, key, body, status, data, error, calls, pre) ==
  [op |-> op, key |-> key, body |-> body, status |-> status,
   success |-> (status = 200), data |-> data, error |-> error,
   calls |-> calls, pre |-> pre]

\* a request without a body
NoBody == <<>>

Init ==
  /\ db = EmptyDb
  /\ nextId = 1
  /\ clock = 1
  /\ req = [s \in Slots |-> Idle]
  /\ resp = [s \in Slots |-> NoResp]

\* time passes
Tick ==
  /\ clock < MaxClock
  /\ clock' = clock + 1
  /\ UNCHANGED <<db, nextId, req, resp>>

-----------------------------------------------------------------------------
(* Handler shapes shared by the resource families *)

Quiet == \A s \in Slots : req[s] = Idle

Reply(s, r) == resp' = [resp EXCEPT ![s] = r]

ErrorOf(r) == IF r.ok THEN "null" ELSE r.message

StatusOf_NotFound(r) == IF r.ok THEN 200 ELSE 404

StatusOf(r) == IF r.ok THEN 200 ELSE 500

\* GET /: the service's name and the server's time, with no data and no
\* error field
GetHealth(s) ==
  /\ req[s] = Idle
  /\ UNCHANGED <<db, nextId, clock, req>>
  /\ Reply(s, [op |-> "GET /", key |-> "", body |-> NoBody, status |-> 200,
               success |-> TRUE,
               message |-> "Internship Preparation Tracker API",
               timestamp |-> ToString(clock), calls |-> <<>>, pre |-> db])

\* the bodies sent to a create endpoint: complete ones, and the first of them
\* with each required field left out in turn
CreateInputs(full, more, required) ==
  {full} \cup more \cup {[full EXCEPT ![k] = "undefined"] : k \in required}

\* POST /<family>: presence check, then one insert
CreateHandler(s, op, t, body, invalid, message, obj) ==
  /\ req[s] = Idle
  /\ UNCHANGED <<clock, req>>
  /\ IF invalid
     THEN /\ Reply(s, Response(op, "", body, 400, NullData, message, <<>>, db))
          /\ UNCHANGED <<db, nextId>>
     ELSE /\ nextId <= MaxId
          /\ \E fail \in BOOLEAN :
               LET r == Insert(db, t, obj, nextId, clock, fail)
               IN /\ db' = r.db
                  /\ nextId' = IF r.ok THEN nextId + 1 ELSE nextId
                  /\ Reply(s, Response(op, "", body, StatusOf(r), r.data,
                                       ErrorOf(r), <<<<"insert", t>>>>, db))

\* PUT /<family>/:id: the body is forwarded as the update
UpdateHandler(s, op, t, id, updates) ==
  /\ req[s] = Idle
  /\ UNCHANGED <<clock, req, nextId>>
  /\ \E fail \in BOOLEAN :
       LET r == Update(db, t, updates, "id", id, fail)
       IN /\ db' = r.db
          /\ Reply(s, Response(op, id, updates, StatusOf(r), r.data, ErrorOf(r),
                               <<<<"update", t>>>>, db))

\* DELETE /<family>/:id
DeleteHandler_NotFound(s, op, t, id) ==
  /\ req[s] = Idle
  /\ UNCHANGED <<clock, req, nextId>>
  /\ \E fail \in BOOLEAN :
       LET r == Delete(db, t, "id", id, fail)
       IN /\ db' = r.db
          /\ IF r.ok /\ {x \in db[t] : x.id = id} = {}
             THEN Reply(s, Response(op, id, NoBody, 404, NullData, "Not found",
                                    <<<<"delete", t>>>>, db))
             ELSE Reply(s, Response(op, id, NoBody, StatusOf(r),
                                    IF r.ok THEN [id |-> id] ELSE NullData,
                                    ErrorOf(r), <<<<"delete", t>>>>, db))

DeleteHandler(s, op, t, id) ==
  /\ req[s] = Idle
  /\ UNCHANGED <<clock, req, nextId>>
  /\ \E fail \in BOOLEAN :
       LET r == Delete(db, t, "id", id, fail)
       IN /\ db' = r.db
          /\ Reply(s, Response(op, id, NoBody, StatusOf(r),
                               IF r.ok THEN [id |-> id] ELSE NullData,
                               ErrorOf(r), <<<<"delete", t>>>>, db))

\* the data store's order on the values of a column: numbers by value, text
\* and dates by spelling, null after everything else
TextOrder == <<"", "2024-01-01", "2024-01-02", "codeforces", "leetcode",
               "other", "piyush", "shruti", "tla", "undefined">>

Rank(v) ==
  IF v = "null" THEN 1000
  ELSE IF \E n \in 0..9 : ToString(n) = v THEN NumOf(v)
  ELSE IF \E i \in DOMAIN TextOrder : TextOrder[i] = v
       THEN 10 + (CHOOSE i \in DOMAIN TextOrder : TextOrder[i] = v)
  ELSE 500

\* .order(col, {ascending: asc}): the orders in which the store may return
\* the rows (rows with equal keys come in any order)
Ordered(rows, col, asc) ==
  {seq \in [1..Cardinality(rows) -> rows] :
     /\ \A i, j \in DOMAIN seq : i # j => seq[i] # seq[j]
     /\ \A i, j \in DOMAIN seq : i < j =>
          IF asc THEN Rank(seq[i][col]) <= Rank(seq[j][col])
                 ELSE Rank(seq[i][col]) >= Rank(seq[j][col])}

RowsWhere(d, t, col, val) == {r \in d[t] : r[col] = val}

\* GET /<family>[?profile=]: the owner key is checked where the family has
\* one, then one ordered select
ListHandler_NoProfileCheck(s, op, t, needsProfile, profile, col, asc) ==
  /\ req[s] = Idle
  /\ UNCHANGED <<db, nextId, clock, req>>
  /\ \E fail \in BOOLEAN :
       IF fail
       THEN Reply(s, Response(op, profile, NoBody, 500, NullData,
                              BackendDown(db).message, <<<<"select", t>>>>, db))
       ELSE \E rows \in Ordered(IF needsProfile
                                THEN RowsWhere(db, t, "profile", profile)
                                ELSE db[t], col, asc) :
              Reply(s, Response(op, profile, NoBody, 200, rows, "null",
                                <<<<"select", t>>>>, db))

ListHandler(s, op, t, needsProfile, profile, col, asc) ==
  /\ req[s] = Idle
  /\ UNCHANGED <<db, nextId, clock, req>>
  /\ IF needsProfile /\ Falsy(profile)
     THEN Reply(s, Response(op, profile, NoBody, 400, NullData,
                            "Profile parameter is required", <<>>, db))
     ELSE \E fail \in BOOLEAN :
            IF fail
            THEN Reply(s, Response(op, profile, NoBody, 500, NullData,
                                   BackendDown(db).message, <<<<"select", t>>>>, db))
            ELSE \E rows \in Ordered(IF needsProfile
                                     THEN RowsWhere(db, t, "profile", profile)
                                     ELSE db[t], col, asc) :
                   Reply(s, Response(op, profile, NoBody, 200, rows, "null",
                                     <<<<"select", t>>>>, db))

\* a fetch by date that creates the row of a date that has none
GetByDateHandler_CreateMissing(s, op, t, date) ==
  /\ req[s] = Idle
  /\ UNCHANGED <<clock, req>>
  /\ \E fail \in BOOLEAN :
       LET r == SelectSingle(db, RowsWhere(db, t, "date", date), fail)
           made == Insert(db, t, [date |-> date], nextId, clock, FALSE)
       IN IF ~r.ok /\ r.code = "PGRST116" /\ nextId <= MaxId
          THEN /\ db' = made.db
               /\ nextId' = nextId + 1
               /\ Reply(s, Response(op, date, NoBody, 200, made.data, "null",
                                    <<<<"select", t>>, <<"insert", t>>>>, db))
          ELSE /\ UNCHANGED <<db, nextId>>
               /\ Reply(s, Response(op, date, NoBody, StatusOf(r), r.data,
                                    ErrorOf(r), <<<<"select", t>>>>, db))

\* GET /daily-logs/<person>/:date: PGRST116 is answered as "no data yet"
GetByDateHandler(s, op, t, date) ==
  /\ req[s] = Idle
  /\ UNCHANGED <<db, nextId, clock, req>>
  /\ \E fail \in BOOLEAN :
       LET r == SelectSingle(db, RowsWhere(db, t, "date", date), fail)
       IN IF ~r.ok /\ r.code = "PGRST116"
          THEN Reply(s, Response(op, date, NoBody, 200, NullData, "null",
                                 <<<<"select", t>>>>, db))
          ELSE Reply(s, Response(op, date, NoBody, StatusOf(r), r.data,
                                 ErrorOf(r), <<<<"select", t>>>>, db))

-----------------------------------------------------------------------------
(* Habits and habit entries *)

Profiles == {"piyush", "shruti"}
Dates == {"2024-01-01", "2024-01-02"}
Ids == {ToString(i) : i \in 1..MaxId}

HabitBodies ==
  CreateInputs([profile |-> "piyush", name |-> "run", sort_order |-> "5"],
               {[profile |-> "piyush", name |-> "run", sort_order |-> "undefined"],
                [profile |-> "piyush", name |-> "run", sort_order |-> "0"]},
               {"profile", "name"})

PostHabits(s, body) ==
  CreateHandler(s, "POST /habits", "habits", body,
                Falsy(body.profile) \/ Falsy(body.name),
                "Profile and name are required",
                [profile |-> body.profile, name |-> body.name,
                 sort_order |-> OrElse(body.sort_order, "0")])

HabitEntryBodies ==
  CreateInputs([habit_id |-> "1", date |-> "2024-01-01", completed |-> "true"],
               {[habit_id |-> "2", date |-> "2024-01-01", completed |-> "undefined"],
                [habit_id |-> "1", date |-> "2024-01-02", completed |-> "false"]},
               {"habit_id", "date"})

PostHabitEntries(s, body) ==
  CreateHandler(s, "POST /habit-entries", "habit_entries", body,
                Falsy(body.habit_id) \/ Falsy(body.date),
                "habit_id and date are required",
                [habit_id |-> body.habit_id, date |-> body.date,
                 completed |-> OrElse(body.completed, "false")])

\* DELETE /habits/:id, up to the await of the entry purge: the purge's
\* result is not looked at
DeleteHabitsPurge(s, id) ==
  /\ req[s] = Idle
  /\ \E fail \in BOOLEAN :
       LET r == Delete(db, "habit_entries", "habit_id", id, fail)
       IN /\ db' = r.db
          /\ req' = [req EXCEPT ![s] = [op |-> "DELETE /habits/:id", key |-> id,
                        failed |-> Failure(r),
                        calls |-> <<<<"delete", "habit_entries">>>>, pre |-> db]]
  /\ Reply(s, NoResp)
  /\ UNCHANGED <<clock, nextId>>

DeleteHabitsFinish_Rollback(s) ==
  /\ req[s].op = "DELETE /habits/:id"
  /\ \E fail \in BOOLEAN :
       LET r == Delete(db, "habits", "id", req[s].key, fail)
       IN /\ db' = IF r.ok THEN r.db ELSE req[s].pre
          /\ Reply(s, Response(req[s].op, req[s].key, NoBody, StatusOf(r),
                               IF r.ok THEN [id |-> req[s].key] ELSE NullData,
                               ErrorOf(r),
                               Append(req[s].calls, <<"delete", "habits">>),
                               req[s].pre))
  /\ req' = [req EXCEPT ![s] = Idle]
  /\ UNCHANGED <<clock, nextId>>

\* DELETE /habits/:id, from the habit-row delete to the response
DeleteHabitsFinish(s) ==
  /\ req[s].op = "DELETE /habits/:id"
  /\ \E fail \in BOOLEAN :
       LET r == Delete(db, "habits", "id", req[s].key, fail)
       IN /\ db' = r.db
          /\ Reply(s, Response(req[s].op, req[s].key, NoBody, StatusOf(r),
                               IF r.ok THEN [id |-> req[s].key] ELSE NullData,
                               ErrorOf(r),
                               Append(req[s].calls, <<"delete", "habits">>),
                               req[s].pre))
  /\ req' = [req EXCEPT ![s] = Idle]
  /\ UNCHANGED <<clock, nextId>>

\* one request at a time on habits and habit entries
NextHabits ==
  \/ Quiet /\ \E body \in HabitBodies : PostHabits(1, body)
  \/ Quiet /\ \E body \in HabitEntryBodies : PostHabitEntries(1, body)
  \/ Quiet /\ \E id \in Ids : DeleteHabitsPurge(1, id)
  \/ DeleteHabitsFinish(1)

SpecHabits == Init /\ [][NextHabits]_vars

-----------------------------------------------------------------------------
(* CP ratings *)

Platforms == {"codeforces", "leetcode"}
Ratings == {"undefined", "0", "1500"}

PutCpRatingsLookup_AnyPlatform(s, platform, rating) ==
  /\ req[s] = Idle
  /\ UNCHANGED <<db, nextId, clock>>
  /\ IF rating = "undefined"
     THEN /\ Reply(s, Response("PUT /cp-ratings/:platform", platform,
                               [rating |-> rating], 400,
                               NullData, "Rating is required", <<>>, db))
          /\ UNCHANGED req
     ELSE /\ \E fail \in BOOLEAN :
               LET r == SelectSingle(db, db.cp_ratings, fail)
               IN req' = [req EXCEPT ![s] =
                            [op |-> "PUT /cp-ratings/:platform", key |-> platform,
                             rating |-> rating, existing |-> r.data,
                             failed |-> Failure(r),
                             calls |-> <<<<"select", "cp_ratings">>>>, pre |-> db]]
          /\ Reply(s, NoResp)

\* PUT /cp-ratings/:platform, up to the await of the lookup: the lookup's
\* error is not looked at, so a failed lookup reads as "no row"
PutCpRatingsLookup(s, platform, rating) ==
  /\ req[s] = Idle
  /\ UNCHANGED <<db, nextId, clock>>
  /\ IF rating = "undefined"
     THEN /\ Reply(s, Response("PUT /cp-ratings/:platform", platform,
                               [rating |-> rating], 400,
                               NullData, "Rating is required", <<>>, db))
          /\ UNCHANGED req
     ELSE /\ \E fail \in BOOLEAN :
               LET r == SelectSingle(db, RowsWhere(db, "cp_ratings", "platform", platform), fail)
               IN req' = [req EXCEPT ![s] =
                            [op |-> "PUT /cp-ratings/:platform", key |-> platform,
                             rating |-> rating, existing |-> r.data,
                             failed |-> Failure(r),
                             calls |-> <<<<"select", "cp_ratings">>>>, pre |-> db]]
          /\ Reply(s, NoResp)

PutCpRatingsWrite_Recheck(s) ==
  /\ req[s].op = "PUT /cp-ratings/:platform"
  /\ IF RowsWhere(db, "cp_ratings", "platform", req[s].key) # {}
     THEN /\ \E fail \in BOOLEAN :
               LET r == Update(db, "cp_ratings",
                               [rating |-> req[s].rating, updated_at |-> ToString(clock)],
                               "platform", req[s].key, fail)
               IN /\ db' = r.db
                  /\ Reply(s, Response(req[s].op, req[s].key,
                                       [rating |-> req[s].rating],
                                       StatusOf(r), r.data, ErrorOf(r),
                                       Append(req[s].calls, <<"update", "cp_ratings">>),
                                       req[s].pre))
          /\ UNCHANGED nextId
     ELSE /\ nextId <= MaxId
          /\ \E fail \in BOOLEAN :
               LET r == Insert(db, "cp_ratings",
                               [platform |-> req[s].key, rating |-> req[s].rating],
                               nextId, clock, fail)
               IN /\ db' = r.db
                  /\ nextId' = IF r.ok THEN nextId + 1 ELSE nextId
                  /\ Reply(s, Response(req[s].op, req[s].key,
                                       [rating |-> req[s].rating],
                                       StatusOf(r), r.data, ErrorOf(r),
                                       Append(req[s].calls, <<"insert", "cp_ratings">>),
                                       req[s].pre))
  /\ req' = [req EXCEPT ![s] = Idle]
  /\ UNCHANGED clock

\* PUT /cp-ratings/:platform, from the branch on the lookup to the response
PutCpRatingsWrite(s) ==
  /\ req[s].op = "PUT /cp-ratings/:platform"
  /\ IF req[s].existing # NullData
     THEN /\ \E fail \in BOOLEAN :
               LET r == Update(db, "cp_ratings",
                               [rating |-> req[s].rating, updated_at |-> ToString(clock)],
                               "platform", req[s].key, fail)
               IN /\ db' = r.db
                  /\ Reply(s, Response(req[s].op, req[s].key,
                                       [rating |-> req[s].rating],
                                       StatusOf(r), r.data, ErrorOf(r),
                                       Append(req[s].calls, <<"update", "cp_ratings">>),
                                       req[s].pre))
          /\ UNCHANGED nextId
     ELSE /\ nextId <= MaxId
          /\ \E fail \in BOOLEAN :
               LET r == Insert(db, "cp_ratings",
                               [platform |-> req[s].key, rating |-> req[s].rating],
                               nextId, clock, fail)
               IN /\ db' = r.db
                  /\ nextId' = IF r.ok THEN nextId + 1 ELSE nextId
                  /\ Reply(s, Response(req[s].op, req[s].key,
                                       [rating |-> req[s].rating],
                                       StatusOf(r), r.data, ErrorOf(r),
                                       Append(req[s].calls, <<"insert", "cp_ratings">>),
                                       req[s].pre))
  /\ req' = [req EXCEPT ![s] = Idle]
  /\ UNCHANGED clock

\* one PUT /cp-ratings at a time
NextCpSeq ==
  \/ Quiet /\ \E p \in Platforms, r \in Ratings : PutCpRatingsLookup(1, p, r)
  \/ PutCpRatingsWrite(1)
  \/ Tick

SpecCpSeq == Init /\ [][NextCpSeq]_vars

\* overlapping PUT /cp-ratings requests, each on a connection of its own; the
\* connections are taken in order
Unused(s) == req[s] = Idle /\ resp[s] = NoResp
NextFree(s) == Unused(s) /\ \A u \in Slots : u < s => ~Unused(u)

NextCp ==
  \/ \E s \in Slots, p \in Platforms, r \in Ratings :
       NextFree(s) /\ PutCpRatingsLookup(s, p, r)
  \/ \E s \in Slots : PutCpRatingsWrite(s)

SpecCp == Init /\ [][NextCp]_vars

-----------------------------------------------------------------------------
(* A2Z progress *)

A2zDefaults == [easy_total |-> "0", easy_solved |-> "0", medium_total |-> "0",
                medium_solved |-> "0", hard_total |-> "0", hard_solved |-> "0"]

A2zUpdates == {[easy_solved |-> "5"],
               [easy_total |-> "100", easy_solved |-> "5"],
               [hard_total |-> "100"]}

\* GET /a2z-progress, up to the await of the single-row select
GetA2zProgressLookup(s) ==
  /\ req[s] = Idle
  /\ UNCHANGED <<db, nextId, clock>>
  /\ \E fail \in BOOLEAN :
       LET r == SelectSingle(db, db.a2z_progress, fail)
           calls == <<<<"select", "a2z_progress">>>>
       IN IF ~r.ok /\ r.code = "PGRST116"
          THEN /\ req' = [req EXCEPT ![s] = [op |-> "GET /a2z-progress", key |-> "",
                                             calls |-> calls, pre |-> db]]
               /\ Reply(s, NoResp)
          ELSE /\ Reply(s, Response("GET /a2z-progress", "", NoBody, StatusOf(r),
                                    r.data, ErrorOf(r), calls, db))
               /\ UNCHANGED req

GetA2zProgressInsert_Recheck(s) ==
  /\ req[s].op = "GET /a2z-progress"
  /\ nextId <= MaxId
  /\ \E fail \in BOOLEAN :
       LET r == IF db.a2z_progress # {}
                THEN Ok(CHOOSE row \in db.a2z_progress : TRUE, db)
                ELSE Insert(db, "a2z_progress", A2zDefaults, nextId, clock, fail)
       IN /\ db' = r.db
          /\ nextId' = IF r.db # db THEN nextId + 1 ELSE nextId
          /\ Reply(s, Response(req[s].op, "", NoBody, StatusOf(r), r.data,
                               ErrorOf(r),
                               Append(req[s].calls, <<"insert", "a2z_progress">>),
                               req[s].pre))
  /\ req' = [req EXCEPT ![s] = Idle]
  /\ UNCHANGED clock

\* GET /a2z-progress after PGRST116: insert the default row and return it
GetA2zProgressInsert(s) ==
  /\ req[s].op = "GET /a2z-progress"
  /\ nextId <= MaxId
  /\ \E fail \in BOOLEAN :
       LET r == Insert(db, "a2z_progress", A2zDefaults, nextId, clock, fail)
       IN /\ db' = r.db
          /\ nextId' = IF r.ok THEN nextId + 1 ELSE nextId
          /\ Reply(s, Response(req[s].op, "", NoBody, StatusOf(r), r.data,
                               ErrorOf(r),
                               Append(req[s].calls, <<"insert", "a2z_progress">>),
                               req[s].pre))
  /\ req' = [req EXCEPT ![s] = Idle]
  /\ UNCHANGED clock

\* PUT /a2z-progress, up to the await of the single-row select: the
\* select's error is not looked at
PutA2zProgressLookup(s, updates) ==
  /\ req[s] = Idle
  /\ UNCHANGED <<db, nextId, clock>>
  /\ \E fail \in BOOLEAN :
       LET r == SelectSingle(db, db.a2z_progress, fail)
       IN req' = [req EXCEPT ![s] = [op |-> "PUT /a2z-progress", key |-> "",
                                     updates |-> updates, existing |-> r.data,
                                     failed |-> Failure(r),
                                     calls |-> <<<<"select", "a2z_progress">>>>,
                                     pre |-> db]]
  /\ Reply(s, NoResp)

\* PUT /a2z-progress, from the branch on the select to the response
PutA2zProgressWrite(s) ==
  /\ req[s].op = "PUT /a2z-progress"
  /\ IF req[s].existing = NullData
     THEN /\ nextId <= MaxId
          /\ \E fail \in BOOLEAN :
               LET r == Insert(db, "a2z_progress", req[s].updates, nextId, clock, fail)
               IN /\ db' = r.db
                  /\ nextId' = IF r.ok THEN nextId + 1 ELSE nextId
                  /\ Reply(s, Response(req[s].op, "", req[s].updates, StatusOf(r),
                                       r.data, ErrorOf(r),
                                       Append(req[s].calls, <<"insert", "a2z_progress">>),
                                       req[s].pre))
     ELSE /\ \E fail \in BOOLEAN :
               LET r == Update(db, "a2z_progress", req[s].updates,
                               "id", req[s].existing.id, fail)
               IN /\ db' = r.db
                  /\ Reply(s, Response(req[s].op, "", req[s].updates, StatusOf(r),
                                       r.data, ErrorOf(r),
                                       Append(req[s].calls, <<"update", "a2z_progress">>),
                                       req[s].pre))
          /\ UNCHANGED nextId
  /\ req' = [req EXCEPT ![s] = Idle]
  /\ UNCHANGED clock

\* one /a2z-progress request at a time
NextA2zSeq ==
  \/ Quiet /\ GetA2zProgressLookup(1)
  \/ GetA2zProgressInsert(1)
  \/ Quiet /\ \E u \in A2zUpdates : PutA2zProgressLookup(1, u)
  \/ PutA2zProgressWrite(1)

SpecA2zSeq == Init /\ [][NextA2zSeq]_vars

-----------------------------------------------------------------------------
(* The handlers of the resource families *)

\* ---- todos ----

GetTodos(s, profile) ==
  ListHandler(s, "GET /todos", "todos", TRUE, profile, "created_at", FALSE)

TodoBodies ==
  CreateInputs([profile |-> "piyush", content |-> "x"],
               {},
               {"profile", "content"})

PostTodos(s, body) ==
  CreateHandler(s, "POST /todos", "todos", body,
                Falsy(body.profile) \/ Falsy(body.content),
                "Profile and content are required",
                [profile |-> body.profile,
                 content |-> body.content])

TodoUpdates ==
  {[content |-> "y"],
   [content |-> "y", profile |-> "shruti"]}

PutTodos(s, id, updates) ==
  UpdateHandler(s, "PUT /todos/:id", "todos", id, updates)

DeleteTodos(s, id) ==
  DeleteHandler(s, "DELETE /todos/:id", "todos", id)

\* ---- habits (POST and DELETE are above) ----

GetHabits(s, profile) ==
  ListHandler(s, "GET /habits", "habits", TRUE, profile, "sort_order", TRUE)

HabitUpdates ==
  {[name |-> "walk"],
   [sort_order |-> "1", profile |-> "shruti"]}

PutHabits(s, id, updates) ==
  UpdateHandler(s, "PUT /habits/:id", "habits", id, updates)

\* ---- habit entries (POST is above) ----

HabitEntryUpdates ==
  {[completed |-> "true"],
   [habit_id |-> "2", date |-> "2024-01-02"]}

PutHabitEntries(s, id, updates) ==
  UpdateHandler(s, "PUT /habit-entries/:id", "habit_entries", id, updates)

\* ---- daily logs, piyush ----

GetDailyLogsPiyush(s) ==
  ListHandler(s, "GET /daily-logs/piyush", "daily_logs_piyush", FALSE, "", "date", FALSE)

GetDailyLogsPiyushByDate(s, date) ==
  GetByDateHandler(s, "GET /daily-logs/piyush/:date", "daily_logs_piyush", date)

DailyLogPiyushBodies ==
  CreateInputs([date |-> "2024-01-01", dsa_questions_solved |-> "5", notes |-> "n"],
               {[date |-> "2024-01-02", dsa_questions_solved |-> "undefined", notes |-> "undefined"]},
               {"date"})

PostDailyLogsPiyush(s, body) ==
  CreateHandler(s, "POST /daily-logs/piyush", "daily_logs_piyush", body,
                Falsy(body.date),
                "Date is required",
                [date |-> body.date,
                 dsa_questions_solved |-> OrElse(body.dsa_questions_solved, "0"),
                 notes |-> body.notes])

DailyLogPiyushUpdates ==
  {[notes |-> "m"],
   [date |-> "2024-01-02", dsa_questions_solved |-> "7"]}

PutDailyLogsPiyush(s, id, updates) ==
  UpdateHandler(s, "PUT /daily-logs/piyush/:id", "daily_logs_piyush", id, updates)

DeleteDailyLogsPiyush(s, id) ==
  DeleteHandler(s, "DELETE /daily-logs/piyush/:id", "daily_logs_piyush", id)

\* ---- daily logs, shruti ----

GetDailyLogsShruti(s) ==
  ListHandler(s, "GET /daily-logs/shruti", "daily_logs_shruti", FALSE, "", "date", FALSE)

GetDailyLogsShrutiByDate(s, date) ==
  GetByDateHandler(s, "GET /daily-logs/shruti/:date", "daily_logs_shruti", date)

DailyLogShrutiBodies ==
  CreateInputs([date |-> "2024-01-01", python_questions_solved |-> "5", sql_questions_solved |-> "5", notes |-> "n"],
               {[date |-> "2024-01-02", python_questions_solved |-> "undefined", sql_questions_solved |-> "0", notes |-> "undefined"]},
               {"date"})

PostDailyLogsShruti(s, body) ==
  CreateHandler(s, "POST /daily-logs/shruti", "daily_logs_shruti", body,
                Falsy(body.date),
                "Date is required",
                [date |-> body.date,
                 python_questions_solved |-> OrElse(body.python_questions_solved, "0"),
                 sql_questions_solved |-> OrElse(body.sql_questions_solved, "0"),
                 notes |-> body.notes])

DailyLogShrutiUpdates ==
  {[notes |-> "m"],
   [date |-> "2024-01-02", sql_questions_solved |-> "7"]}

PutDailyLogsShruti(s, id, updates) ==
  UpdateHandler(s, "PUT /daily-logs/shruti/:id", "daily_logs_shruti", id, updates)

DeleteDailyLogsShruti(s, id) ==
  DeleteHandler(s, "DELETE /daily-logs/shruti/:id", "daily_logs_shruti", id)

\* ---- cp ratings (PUT is above) ----

GetCpRatings(s) ==
  ListHandler(s, "GET /cp-ratings", "cp_ratings", FALSE, "", "platform", TRUE)

\* ---- contest logs ----

GetContestLogs(s) ==
  ListHandler(s, "GET /contest-logs", "contest_logs", FALSE, "", "date", FALSE)

ContestLogBodies ==
  CreateInputs([platform |-> "codeforces", contest_name |-> "round", date |-> "2024-01-01", problems_solved |-> "5", total_problems |-> "5", notes |-> "n"],
               {[platform |-> "leetcode", contest_name |-> "round", date |-> "2024-01-02", problems_solved |-> "undefined", total_problems |-> "undefined", notes |-> "undefined"]},
               {"platform", "contest_name", "date"})

PostContestLogs(s, body) ==
  CreateHandler(s, "POST /contest-logs", "contest_logs", body,
                Falsy(body.platform) \/ Falsy(body.contest_name) \/ Falsy(body.date),
                "Platform, contest_name, and date are required",
                [platform |-> body.platform,
                 contest_name |-> body.contest_name,
                 date |-> body.date,
                 problems_solved |-> OrElse(body.problems_solved, "0"),
                 total_problems |-> OrElse(body.total_problems, "0"),
                 notes |-> body.notes])

ContestLogUpdates ==
  {[problems_solved |-> "3"],
   [date |-> "2024-01-02", notes |-> "m"]}

PutContestLogs(s, id, updates) ==
  UpdateHandler(s, "PUT /contest-logs/:id", "contest_logs", id, updates)

DeleteContestLogs(s, id) ==
  DeleteHandler(s, "DELETE /contest-logs/:id", "contest_logs", id)

\* ---- blind75 ----

GetBlind75(s) ==
  ListHandler(s, "GET /blind75", "blind75", FALSE, "", "question_name", TRUE)

Blind75Bodies ==
  CreateInputs([question_name |-> "tla", solution_link |-> "link", completed |-> "true"],
               {[question_name |-> "other", solution_link |-> "undefined", completed |-> "undefined"]},
               {"question_name"})

PostBlind75(s, body) ==
  CreateHandler(s, "POST /blind75", "blind75", body,
                Falsy(body.question_name),
                "Question name is required",
                [question_name |-> body.question_name,
                 solution_link |-> body.solution_link,
                 completed |-> OrElse(body.completed, "false")])

Blind75Updates ==
  {[completed |-> "true"],
   [question_name |-> "other", solution_link |-> "link2"]}

PutBlind75(s, id, updates) ==
  UpdateHandler(s, "PUT /blind75/:id", "blind75", id, updates)

DeleteBlind75(s, id) ==
  DeleteHandler(s, "DELETE /blind75/:id", "blind75", id)

\* ---- courses ----

GetCourses(s, profile) ==
  ListHandler(s, "GET /courses", "courses", TRUE, profile, "course_name", TRUE)

CourseBodies ==
  CreateInputs([profile |-> "piyush", course_name |-> "tla", platform |-> "udemy", total_content |-> "50", completed_content |-> "5"],
               {[profile |-> "piyush", course_name |-> "other", platform |-> "udemy", total_content |-> "undefined", completed_content |-> "undefined"],
                [profile |-> "shruti", course_name |-> "tla", platform |-> "udemy", total_content |-> "0", completed_content |-> "0"]},
               {"profile", "course_name", "platform"})

PostCourses(s, body) ==
  CreateHandler(s, "POST /courses", "courses", body,
                Falsy(body.profile) \/ Falsy(body.course_name) \/ Falsy(body.platform),
                "Profile, course_name, and platform are required",
                [profile |-> body.profile,
                 course_name |-> body.course_name,
                 platform |-> body.platform,
                 total_content |-> OrElse(body.total_content, "100"),
                 completed_content |-> OrElse(body.completed_content, "0")])

CourseUpdates ==
  {[completed_content |-> "9"],
   [course_name |-> "other", total_content |-> "60"]}

PutCourses(s, id, updates) ==
  UpdateHandler(s, "PUT /courses/:id", "courses", id, updates)

DeleteCourses(s, id) ==
  DeleteHandler(s, "DELETE /courses/:id", "courses", id)

\* ---- certificates ----

GetCertificates(s, profile) ==
  ListHandler(s, "GET /certificates", "certificates", TRUE, profile, "date", FALSE)

CertificateBodies ==
  CreateInputs([profile |-> "piyush", title |-> "cert", issuer |-> "acm", date |-> "2024-01-01", file_url |-> "url"],
               {[profile |-> "piyush", title |-> "cert", issuer |-> "acm", date |-> "2024-01-02", file_url |-> "undefined"]},
               {"profile", "title", "issuer", "date"})

\* POST /certificates with the presence check of date left out
PostCertificates_NoDateCheck(s, body) ==
  CreateHandler(s, "POST /certificates", "certificates", body,
                Falsy(body.profile) \/ Falsy(body.title) \/ Falsy(body.issuer),
                "Profile, title, issuer, and date are required",
                [profile |-> body.profile,
                 title |-> body.title,
                 issuer |-> body.issuer,
                 date |-> body.date,
                 file_url |-> body.file_url])

PostCertificates(s, body) ==
  CreateHandler(s, "POST /certificates", "certificates", body,
                Falsy(body.profile) \/ Falsy(body.title) \/ Falsy(body.issuer) \/ Falsy(body.date),
                "Profile, title, issuer, and date are required",
                [profile |-> body.profile,
                 title |-> body.title,
                 issuer |-> body.issuer,
                 date |-> body.date,
                 file_url |-> body.file_url])

DeleteCertificates(s, id) ==
  DeleteHandler(s, "DELETE /certificates/:id", "certificates", id)

\* ---- resume sections ----

GetResumeSections(s) ==
  ListHandler(s, "GET /resume-sections", "resume_sections", FALSE, "", "sort_order", TRUE)

ResumeSectionUpdates ==
  {[sort_order |-> "3"]}

PutResumeSections(s, id, updates) ==
  UpdateHandler(s, "PUT /resume-sections/:id", "resume_sections", id, updates)

\* ---- projects ----

GetProjects(s, profile) ==
  ListHandler(s, "GET /projects", "projects", TRUE, profile, "project_name", TRUE)

ProjectBodies ==
  CreateInputs([profile |-> "piyush", project_name |-> "tla", description |-> "d", notes |-> "n"],
               {[profile |-> "piyush", project_name |-> "other", description |-> "undefined", notes |-> "undefined"]},
               {"profile", "project_name"})

PostProjects(s, body) ==
  CreateHandler(s, "POST /projects", "projects", body,
                Falsy(body.profile) \/ Falsy(body.project_name),
                "Profile and project_name are required",
                [profile |-> body.profile,
                 project_name |-> body.project_name,
                 description |-> body.description,
                 notes |-> body.notes])

ProjectUpdates ==
  {[notes |-> "m"],
   [project_name |-> "other", description |-> "e"]}

PutProjects(s, id, updates) ==
  UpdateHandler(s, "PUT /projects/:id", "projects", id, updates)

DeleteProjects(s, id) ==
  DeleteHandler(s, "DELETE /projects/:id", "projects", id)

\* ---- skills ----

GetSkills(s, profile) ==
  ListHandler(s, "GET /skills", "skills", TRUE, profile, "skill_name", TRUE)

SkillBodies ==
  CreateInputs([profile |-> "piyush", skill_name |-> "tla", notes |-> "n"],
               {[profile |-> "piyush", skill_name |-> "other", notes |-> "undefined"]},
               {"profile", "skill_name"})

PostSkills(s, body) ==
  CreateHandler(s, "POST /skills", "skills", body,
                Falsy(body.profile) \/ Falsy(body.skill_name),
                "Profile and skill_name are required",
                [profile |-> body.profile,
                 skill_name |-> body.skill_name,
                 notes |-> body.notes])

SkillUpdates ==
  {[notes |-> "m"],
   [skill_name |-> "other", profile |-> "shruti"]}

PutSkills(s, id, updates) ==
  UpdateHandler(s, "PUT /skills/:id", "skills", id, updates)

DeleteSkills(s, id) ==
  DeleteHandler(s, "DELETE /skills/:id", "skills", id)

\* ---- case studies ----

GetCaseStudies(s) ==
  ListHandler(s, "GET /case-studies", "case_studies", FALSE, "", "date", FALSE)

CaseStudyBodies ==
  CreateInputs([title |-> "case", notes |-> "n", date |-> "2024-01-01"],
               {[title |-> "case", notes |-> "undefined", date |-> "2024-01-02"]},
               {"title", "date"})

PostCaseStudies(s, body) ==
  CreateHandler(s, "POST /case-studies", "case_studies", body,
                Falsy(body.title) \/ Falsy(body.date),
                "Title and date are required",
                [title |-> body.title,
                 notes |-> body.notes,
                 date |-> body.date])

CaseStudyUpdates ==
  {[notes |-> "m"],
   [title |-> "case2", date |-> "2024-01-02"]}

PutCaseStudies(s, id, updates) ==
  UpdateHandler(s, "PUT /case-studies/:id", "case_studies", id, updates)

DeleteCaseStudies(s, id) ==
  DeleteHandler(s, "DELETE /case-studies/:id", "case_studies", id)

\* ---- guesstimates ----

GetGuesstimates(s) ==
  ListHandler(s, "GET /guesstimates", "guesstimates", FALSE, "", "topic", TRUE)

GuesstimateBodies ==
  CreateInputs([topic |-> "tla", learnings |-> "l", notes |-> "n"],
               {[topic |-> "other", learnings |-> "undefined", notes |-> "undefined"]},
               {"topic"})

PostGuesstimates(s, body) ==
  CreateHandler(s, "POST /guesstimates", "guesstimates", body,
                Falsy(body.topic),
                "Topic is required",
                [topic |-> body.topic,
                 learnings |-> body.learnings,
                 notes |-> body.notes])

GuesstimateUpdates ==
  {[notes |-> "m"],
   [topic |-> "other", learnings |-> "k"]}

PutGuesstimates(s, id, updates) ==
  UpdateHandler(s, "PUT /guesstimates/:id", "guesstimates", id, updates)

DeleteGuesstimates(s, id) ==
  DeleteHandler(s, "DELETE /guesstimates/:id", "guesstimates", id)

\* ---- case competitions ----

GetCaseCompetitions(s) ==
  ListHandler(s, "GET /case-competitions", "case_competitions", FALSE, "", "competition_name", TRUE)

CaseCompetitionBodies ==
  CreateInputs([competition_name |-> "tla", notes |-> "n", document_url |-> "url"],
               {[competition_name |-> "other", notes |-> "undefined", document_url |-> "undefined"]},
               {"competition_name"})

PostCaseCompetitions(s, body) ==
  CreateHandler(s, "POST /case-competitions", "case_competitions", body,
                Falsy(body.competition_name),
                "Competition name is required",
                [competition_name |-> body.competition_name,
                 notes |-> body.notes,
                 document_url |-> body.document_url])

CaseCompetitionUpdates ==
  {[notes |-> "m"],
   [competition_name |-> "other", document_url |-> "url2"]}

PutCaseCompetitions(s, id, updates) ==
  UpdateHandler(s, "PUT /case-competitions/:id", "case_competitions", id, updates)

DeleteCaseCompetitions(s, id) ==
  DeleteHandler(s, "DELETE /case-competitions/:id", "case_competitions", id)

\* ---- GET /habit-entries ----

\* GET /habit-entries, up to the await of the habit-id select
GetHabitEntriesHabits(s, profile, from, to) ==
  /\ req[s] = Idle
  /\ UNCHANGED <<db, nextId, clock>>
  /\ IF Falsy(profile)
     THEN /\ Reply(s, Response("GET /habit-entries", profile, NoBody, 400, NullData,
                               "Profile parameter is required", <<>>, db))
          /\ UNCHANGED req
     ELSE \E fail \in BOOLEAN :
            LET habitIds == {h.id : h \in RowsWhere(db, "habits", "profile", profile)}
                calls == <<<<"select", "habits">>>>
            IN IF fail
               THEN /\ Reply(s, Response("GET /habit-entries", profile, NoBody, 500,
                                         NullData, BackendDown(db).message, calls, db))
                    /\ UNCHANGED req
               ELSE IF habitIds = {}
               THEN /\ Reply(s, Response("GET /habit-entries", profile, NoBody, 200,
                                         <<>>, "null", calls, db))
                    /\ UNCHANGED req
               ELSE /\ req' = [req EXCEPT ![s] =
                                 [op |-> "GET /habit-entries", key |-> profile,
                                  from |-> from, to |-> to, habitIds |-> habitIds,
                                  calls |-> calls, pre |-> db]]
                    /\ Reply(s, NoResp)

GetHabitEntriesEntries_NoUpperBound(s) ==
  /\ req[s].op = "GET /habit-entries"
  /\ UNCHANGED <<db, nextId, clock>>
  /\ req' = [req EXCEPT ![s] = Idle]
  /\ LET calls == Append(req[s].calls, <<"select", "habit_entries">>)
         hit == {e \in db.habit_entries :
                   /\ e.habit_id \in req[s].habitIds
                   /\ Falsy(req[s].from) \/ Rank(e.date) >= Rank(req[s].from)
                   /\ TRUE}
     IN \E fail \in BOOLEAN :
          IF fail
          THEN Reply(s, Response(req[s].op, req[s].key, NoBody, 500, NullData,
                                 BackendDown(db).message, calls, req[s].pre))
          ELSE \E rows \in Ordered(hit, "date", FALSE) :
                 Reply(s, Response(req[s].op, req[s].key, NoBody, 200, rows, "null",
                                   calls, req[s].pre))

\* GET /habit-entries, from the entry select to the response
GetHabitEntriesEntries(s) ==
  /\ req[s].op = "GET /habit-entries"
  /\ UNCHANGED <<db, nextId, clock>>
  /\ req' = [req EXCEPT ![s] = Idle]
  /\ LET calls == Append(req[s].calls, <<"select", "habit_entries">>)
         hit == {e \in db.habit_entries :
                   /\ e.habit_id \in req[s].habitIds
                   /\ Falsy(req[s].from) \/ Rank(e.date) >= Rank(req[s].from)
                   /\ Falsy(req[s].to) \/ Rank(e.date) <= Rank(req[s].to)}
     IN \E fail \in BOOLEAN :
          IF fail
          THEN Reply(s, Response(req[s].op, req[s].key, NoBody, 500, NullData,
                                 BackendDown(db).message, calls, req[s].pre))
          ELSE \E rows \in Ordered(hit, "date", FALSE) :
                 Reply(s, Response(req[s].op, req[s].key, NoBody, 200, rows, "null",
                                   calls, req[s].pre))

-----------------------------------------------------------------------------
(* Uploads *)

\* Buffer.from(fileBase64, "base64") on the payloads sent
Base64Payloads == {"QQ==", "Qg=="}
FromBase64(b) == IF b = "QQ==" THEN "A" ELSE IF b = "Qg==" THEN "B" ELSE ""

\* the objects of a bucket at a path
ObjectsAt(d, bucket, path) == {o \in d[bucket] : o.path = path}

StorageUpload_Upsert(d, bucket, path, content, fail) ==
  IF fail THEN BackendDown(d)
  ELSE Ok([path |-> path],
          [d EXCEPT ![bucket] = (@ \ ObjectsAt(d, bucket, path))
                                  \cup {[path |-> path, content |-> content]}])

\* supabase.storage.from(bucket).upload(path, buffer, {upsert: false}): an
\* object already at the path is an error and stays as it is
StorageUpload(d, bucket, path, content, fail) ==
  IF fail THEN BackendDown(d)
  ELSE IF ObjectsAt(d, bucket, path) # {}
  THEN Err("Duplicate", "The resource already exists", d)
  ELSE Ok([path |-> path],
          [d EXCEPT ![bucket] = @ \cup {[path |-> path, content |-> content]}])

\* supabase.storage.from(bucket).getPublicUrl(path)
PublicUrl(bucket, path) == "https://project.supabase.co/" \o bucket \o "/" \o path

\* the shape of both upload handlers: presence check, path from the clock
\* reading and the file name, one upload, the public URL
UploadHandler(s, op, bucket, body, invalid, message, prefix) ==
  /\ req[s] = Idle
  /\ UNCHANGED <<nextId, clock, req>>
  /\ IF invalid
     THEN /\ Reply(s, Response(op, "", body, 400, NullData, message, <<>>, db))
          /\ UNCHANGED db
     ELSE LET uniqueFileName == prefix \o ToString(clock) \o "-" \o body.fileName
          IN \E fail \in BOOLEAN :
               LET r == StorageUpload(db, bucket, uniqueFileName,
                                      FromBase64(body.fileBase64), fail)
               IN /\ db' = r.db
                  /\ Reply(s, Response(op, uniqueFileName, body, StatusOf(r),
                                       IF r.ok
                                       THEN [file_url |-> PublicUrl(bucket, uniqueFileName),
                                             path |-> r.data.path]
                                       ELSE NullData,
                                       ErrorOf(r), <<<<"upload", bucket>>>>, db))

UploadCertificateBodies ==
  LET full == [fileName |-> "a.pdf", fileBase64 |-> "QQ==", profile |-> "piyush"]
  IN CreateInputs(full, {[full EXCEPT !.fileBase64 = "Qg=="]},
                  {"fileName", "fileBase64", "profile"})

PostUploadCertificate(s, body) ==
  UploadHandler(s, "POST /upload/certificate", "storage/certificates", body,
                Falsy(body.fileName) \/ Falsy(body.fileBase64) \/ Falsy(body.profile),
                "fileName, fileBase64, and profile are required",
                body.profile \o "/certificates/")

UploadCaseCompetitionDocBodies ==
  LET full == [fileName |-> "a.pdf", fileBase64 |-> "QQ=="]
  IN CreateInputs(full, {[full EXCEPT !.fileBase64 = "Qg=="]},
                  {"fileName", "fileBase64"})

PostUploadCaseCompetitionDoc(s, body) ==
  UploadHandler(s, "POST /upload/case-competition-doc", "storage/documents", body,
                Falsy(body.fileName) \/ Falsy(body.fileBase64),
                "fileName and fileBase64 are required",
                "case-competitions/")

\* one upload at a time, while the clock advances
NextUpload ==
  \/ Quiet /\ \E body \in UploadCertificateBodies : PostUploadCertificate(1, body)
  \/ Quiet /\ \E body \in UploadCaseCompetitionDocBodies :
       PostUploadCaseCompetitionDoc(1, body)
  \/ Tick

SpecUpload == Init /\ [][NextUpload]_vars

-----------------------------------------------------------------------------
(* Specifications over the resource families, one request at a time *)

\* a run of these specifications works on one resource family: a request
\* goes to a family only while the tables of the other families are empty
Family(t) == IF t \in {"habits", "habit_entries"} THEN {"habits", "habit_entries"}
             ELSE {t}

Room(t) == \A u \in (Tables \cup Buckets) \ Family(t) : db[u] = {}

NextCreate ==
  \/ Quiet /\ Room("todos") /\ \E body \in TodoBodies : PostTodos(1, body)
  \/ Quiet /\ Room("habits") /\ \E body \in HabitBodies : PostHabits(1, body)
  \/ Quiet /\ Room("habit_entries") /\ \E body \in HabitEntryBodies : PostHabitEntries(1, body)
  \/ Quiet /\ Room("daily_logs_piyush") /\ \E body \in DailyLogPiyushBodies : PostDailyLogsPiyush(1, body)
  \/ Quiet /\ Room("daily_logs_shruti") /\ \E body \in DailyLogShrutiBodies : PostDailyLogsShruti(1, body)
  \/ Quiet /\ Room("contest_logs") /\ \E body \in ContestLogBodies : PostContestLogs(1, body)
  \/ Quiet /\ Room("blind75") /\ \E body \in Blind75Bodies : PostBlind75(1, body)
  \/ Quiet /\ Room("courses") /\ \E body \in CourseBodies : PostCourses(1, body)
  \/ Quiet /\ Room("certificates") /\ \E body \in CertificateBodies : PostCertificates(1, body)
  \/ Quiet /\ Room("projects") /\ \E body \in ProjectBodies : PostProjects(1, body)
  \/ Quiet /\ Room("skills") /\ \E body \in SkillBodies : PostSkills(1, body)
  \/ Quiet /\ Room("case_studies") /\ \E body \in CaseStudyBodies : PostCaseStudies(1, body)
  \/ Quiet /\ Room("guesstimates") /\ \E body \in GuesstimateBodies : PostGuesstimates(1, body)
  \/ Quiet /\ Room("case_competitions") /\ \E body \in CaseCompetitionBodies : PostCaseCompetitions(1, body)
  \/ Tick

SpecCreate == Init /\ [][NextCreate]_vars

\* the values of the profile query parameter and of the from/to range
ProfileParams == {"piyush", "shruti", "undefined"}
DateRanges == {[from |-> "undefined", to |-> "undefined"],
               [from |-> "2024-01-02", to |-> "undefined"],
               [from |-> "undefined", to |-> "2024-01-01"]}

\* the bodies that supply every field
Complete(bodies) == {b \in bodies : \A k \in DOMAIN b : b[k] # "undefined"}

\* resume sections have no create endpoint: their rows are in the store
\* before the server starts
ResumeIds == {"r1", "r2"}
ResumeSeed == {[id |-> "r1", created_at |-> "0", sort_order |-> "1"],
               [id |-> "r2", created_at |-> "0", sort_order |-> "2"]}

InitCrud ==
  /\ db \in {EmptyDb, [EmptyDb EXCEPT !["resume_sections"] = ResumeSeed]}
  /\ nextId = 1
  /\ clock = 1
  /\ req = [s \in Slots |-> Idle]
  /\ resp = [s \in Slots |-> NoResp]

\* list, get, create, update and delete on every family
NextCrud ==
  \/ Quiet /\ Room("todos") /\ \E body \in Complete(TodoBodies) : PostTodos(1, body)
  \/ Quiet /\ Room("todos") /\ \E profile \in ProfileParams : GetTodos(1, profile)
  \/ Quiet /\ Room("todos") /\ \E id \in Ids, updates \in TodoUpdates : PutTodos(1, id, updates)
  \/ Quiet /\ Room("todos") /\ \E id \in Ids : DeleteTodos(1, id)
  \/ Quiet /\ Room("habits") /\ \E body \in Complete(HabitBodies) : PostHabits(1, body)
  \/ Quiet /\ Room("habits") /\ \E profile \in ProfileParams : GetHabits(1, profile)
  \/ Quiet /\ Room("habits") /\ \E id \in Ids, updates \in HabitUpdates : PutHabits(1, id, updates)
  \/ Quiet /\ Room("habit_entries") /\ \E body \in Complete(HabitEntryBodies) : PostHabitEntries(1, body)
  \/ Quiet /\ Room("habit_entries") /\ \E id \in Ids, updates \in HabitEntryUpdates : PutHabitEntries(1, id, updates)
  \/ Quiet /\ Room("daily_logs_piyush") /\ \E body \in Complete(DailyLogPiyushBodies) : PostDailyLogsPiyush(1, body)
  \/ Quiet /\ Room("daily_logs_piyush") /\ GetDailyLogsPiyush(1)
  \/ Quiet /\ Room("daily_logs_piyush") /\ \E id \in Ids, updates \in DailyLogPiyushUpdates : PutDailyLogsPiyush(1, id, updates)
  \/ Quiet /\ Room("daily_logs_piyush") /\ \E id \in Ids : DeleteDailyLogsPiyush(1, id)
  \/ Quiet /\ Room("daily_logs_shruti") /\ \E body \in Complete(DailyLogShrutiBodies) : PostDailyLogsShruti(1, body)
  \/ Quiet /\ Room("daily_logs_shruti") /\ GetDailyLogsShruti(1)
  \/ Quiet /\ Room("daily_logs_shruti") /\ \E id \in Ids, updates \in DailyLogShrutiUpdates : PutDailyLogsShruti(1, id, updates)
  \/ Quiet /\ Room("daily_logs_shruti") /\ \E id \in Ids : DeleteDailyLogsShruti(1, id)
  \/ Quiet /\ Room("contest_logs") /\ \E body \in Complete(ContestLogBodies) : PostContestLogs(1, body)
  \/ Quiet /\ Room("contest_logs") /\ GetContestLogs(1)
  \/ Quiet /\ Room("contest_logs") /\ \E id \in Ids, updates \in ContestLogUpdates : PutContestLogs(1, id, updates)
  \/ Quiet /\ Room("contest_logs") /\ \E id \in Ids : DeleteContestLogs(1, id)
  \/ Quiet /\ Room("blind75") /\ \E body \in Complete(Blind75Bodies) : PostBlind75(1, body)
  \/ Quiet /\ Room("blind75") /\ GetBlind75(1)
  \/ Quiet /\ Room("blind75") /\ \E id \in Ids, updates \in Blind75Updates : PutBlind75(1, id, updates)
  \/ Quiet /\ Room("blind75") /\ \E id \in Ids : DeleteBlind75(1, id)
  \/ Quiet /\ Room("courses") /\ \E body \in Complete(CourseBodies) : PostCourses(1, body)
  \/ Quiet /\ Room("courses") /\ \E profile \in ProfileParams : GetCourses(1, profile)
  \/ Quiet /\ Room("courses") /\ \E id \in Ids, updates \in CourseUpdates : PutCourses(1, id, updates)
  \/ Quiet /\ Room("courses") /\ \E id \in Ids : DeleteCourses(1, id)
  \/ Quiet /\ Room("certificates") /\ \E body \in Complete(CertificateBodies) : PostCertificates(1, body)
  \/ Quiet /\ Room("certificates") /\ \E profile \in ProfileParams : GetCertificates(1, profile)
  \/ Quiet /\ Room("certificates") /\ \E id \in Ids : DeleteCertificates(1, id)
  \/ Quiet /\ Room("projects") /\ \E body \in Complete(ProjectBodies) : PostProjects(1, body)
  \/ Quiet /\ Room("projects") /\ \E profile \in ProfileParams : GetProjects(1, profile)
  \/ Quiet /\ Room("projects") /\ \E id \in Ids, updates \in ProjectUpdates : PutProjects(1, id, updates)
  \/ Quiet /\ Room("projects") /\ \E id \in Ids : DeleteProjects(1, id)
  \/ Quiet /\ Room("skills") /\ \E body \in Complete(SkillBodies) : PostSkills(1, body)
  \/ Quiet /\ Room("skills") /\ \E profile \in ProfileParams : GetSkills(1, profile)
  \/ Quiet /\ Room("skills") /\ \E id \in Ids, updates \in SkillUpdates : PutSkills(1, id, updates)
  \/ Quiet /\ Room("skills") /\ \E id \in Ids : DeleteSkills(1, id)
  \/ Quiet /\ Room("case_studies") /\ \E body \in Complete(CaseStudyBodies) : PostCaseStudies(1, body)
  \/ Quiet /\ Room("case_studies") /\ GetCaseStudies(1)
  \/ Quiet /\ Room("case_studies") /\ \E id \in Ids, updates \in CaseStudyUpdates : PutCaseStudies(1, id, updates)
  \/ Quiet /\ Room("case_studies") /\ \E id \in Ids : DeleteCaseStudies(1, id)
  \/ Quiet /\ Room("guesstimates") /\ \E body \in Complete(GuesstimateBodies) : PostGuesstimates(1, body)
  \/ Quiet /\ Room("guesstimates") /\ GetGuesstimates(1)
  \/ Quiet /\ Room("guesstimates") /\ \E id \in Ids, updates \in GuesstimateUpdates : PutGuesstimates(1, id, updates)
  \/ Quiet /\ Room("guesstimates") /\ \E id \in Ids : DeleteGuesstimates(1, id)
  \/ Quiet /\ Room("case_competitions") /\ \E body \in Complete(CaseCompetitionBodies) : PostCaseCompetitions(1, body)
  \/ Quiet /\ Room("case_competitions") /\ GetCaseCompetitions(1)
  \/ Quiet /\ Room("case_competitions") /\ \E id \in Ids, updates \in CaseCompetitionUpdates : PutCaseCompetitions(1, id, updates)
  \/ Quiet /\ Room("case_competitions") /\ \E id \in Ids : DeleteCaseCompetitions(1, id)
  \/ Quiet /\ Room("habits") /\ \E id \in Ids : DeleteHabitsPurge(1, id)
  \/ DeleteHabitsFinish(1)
  \/ Quiet /\ Room("habit_entries") /\ \E profile \in ProfileParams, range \in DateRanges :
       GetHabitEntriesHabits(1, profile, range.from, range.to)
  \/ GetHabitEntriesEntries(1)
  \/ Quiet /\ Room("daily_logs_piyush") /\ \E date \in Dates : GetDailyLogsPiyushByDate(1, date)
  \/ Quiet /\ Room("daily_logs_shruti") /\ \E date \in Dates : GetDailyLogsShrutiByDate(1, date)
  \/ Quiet /\ Room("resume_sections") /\ GetResumeSections(1)
  \/ Quiet /\ Room("resume_sections") /\ \E id \in ResumeIds, updates \in ResumeSectionUpdates :
       PutResumeSections(1, id, updates)
  \/ Quiet /\ GetHealth(1)
  \/ Quiet /\ Room("cp_ratings") /\ GetCpRatings(1)
  \/ Quiet /\ Room("cp_ratings") /\ \E p \in Platforms, r \in Ratings : PutCpRatingsLookup(1, p, r)
  \/ PutCpRatingsWrite(1)
  \/ Quiet /\ Room("a2z_progress") /\ GetA2zProgressLookup(1)
  \/ GetA2zProgressInsert(1)
  \/ Quiet /\ Room("a2z_progress") /\ \E u \in A2zUpdates : PutA2zProgressLookup(1, u)
  \/ PutA2zProgressWrite(1)
  \/ Quiet /\ Room("storage/certificates") /\ \E body \in UploadCertificateBodies :
       PostUploadCertificate(1, body)
  \/ Quiet /\ Room("storage/documents") /\ \E body \in UploadCaseCompetitionDocBodies :
       PostUploadCaseCompetitionDoc(1, body)

SpecCrud == InitCrud /\ [][NextCrud]_vars

-----------------------------------------------------------------------------
(* Properties *)

Last == resp[1]

\* C1: after DELETE /habits/:id answers success for habit h, no habit row
\* has id h, no habit entry has habit_id h, and every other habit row and
\* every entry of another habit is as it was when the request arrived.
C1_HabitDeleteRemovesHabitAndEntries ==
  (Last.op = "DELETE /habits/:id" /\ Last.success) =>
     /\ db.habits = {r \in Last.pre.habits : r.id # Last.key}
     /\ db.habit_entries = {r \in Last.pre.habit_entries : r.habit_id # Last.key}
     /\ \A t \in Tables \ {"habits", "habit_entries"} : db[t] = Last.pre[t]

\* C2: with one PUT /cp-ratings at a time from an empty table, no platform
\* ever has more than one row, and after a successful PUT for a platform
\* that platform's row holds the rating of that PUT.
C2_OneRowPerPlatformLatestRating ==
  /\ \A p \in Platforms : Cardinality(RowsWhere(db, "cp_ratings", "platform", p)) <= 1
  /\ (Last.op = "PUT /cp-ratings/:platform" /\ Last.success) =>
        /\ RowsWhere(db, "cp_ratings", "platform", Last.key) # {}
        /\ \A r \in RowsWhere(db, "cp_ratings", "platform", Last.key) :
              r.rating = Last.body.rating

\* a successful PUT /cp-ratings/:platform on connection s that arrived when
\* the platform had no row
PutOnAbsent(s, p) ==
  /\ resp[s].op = "PUT /cp-ratings/:platform"
  /\ resp[s].success
  /\ resp[s].key = p
  /\ RowsWhere(resp[s].pre, "cp_ratings", "platform", p) = {}

\* C3: two PUT /cp-ratings/:platform requests for one platform that both
\* arrived while the platform had no row, so that both lookups ran before
\* either insert, and that both answered with success, have both inserted:
\* cp_ratings then holds at least two rows for the platform. The witness
\* shows that this state is reached.
C3_ConcurrentPutsInsertTwice ==
  \A s1, s2 \in Slots : \A p \in Platforms :
    (s1 # s2 /\ PutOnAbsent(s1, p) /\ PutOnAbsent(s2, p)) =>
      /\ resp[s1].calls = <<<<"select", "cp_ratings">>, <<"insert", "cp_ratings">>>>
      /\ resp[s2].calls = <<<<"select", "cp_ratings">>, <<"insert", "cp_ratings">>>>
      /\ Cardinality(RowsWhere(db, "cp_ratings", "platform", p)) >= 2

C3_Witness ==
  /\ PutOnAbsent(1, "codeforces")
  /\ PutOnAbsent(2, "codeforces")
  /\ Cardinality(RowsWhere(db, "cp_ratings", "platform", "codeforces")) = 2

\* C4: with one GET or PUT /a2z-progress at a time from an empty table,
\* a2z_progress never holds more than one row.
C4_A2zAtMostOneRow ==
  Quiet => Cardinality(db.a2z_progress) <= 1

\* the create endpoints with, as the specification documents them, the
\* table, the required fields and the defaults of the optional fields
CreateOps ==
  [op : {"POST /todos"}, t : {"todos"}, required : {{"profile", "content"}},
   defaults : {<<>>}] \cup
  [op : {"POST /habits"}, t : {"habits"}, required : {{"profile", "name"}},
   defaults : {[sort_order |-> "0"]}] \cup
  [op : {"POST /habit-entries"}, t : {"habit_entries"},
   required : {{"habit_id", "date"}}, defaults : {[completed |-> "false"]}] \cup
  [op : {"POST /daily-logs/piyush"}, t : {"daily_logs_piyush"},
   required : {{"date"}}, defaults : {[dsa_questions_solved |-> "0"]}] \cup
  [op : {"POST /daily-logs/shruti"}, t : {"daily_logs_shruti"},
   required : {{"date"}},
   defaults : {[python_questions_solved |-> "0", sql_questions_solved |-> "0"]}] \cup
  [op : {"POST /contest-logs"}, t : {"contest_logs"},
   required : {{"platform", "contest_name", "date"}},
   defaults : {[problems_solved |-> "0", total_problems |-> "0"]}] \cup
  [op : {"POST /blind75"}, t : {"blind75"}, required : {{"question_name"}},
   defaults : {[completed |-> "false"]}] \cup
  [op : {"POST /courses"}, t : {"courses"},
   required : {{"profile", "course_name", "platform"}},
   defaults : {[total_content |-> "100", completed_content |-> "0"]}] \cup
  [op : {"POST /certificates"}, t : {"certificates"},
   required : {{"profile", "title", "issuer", "date"}}, defaults : {<<>>}] \cup
  [op : {"POST /projects"}, t : {"projects"},
   required : {{"profile", "project_name"}}, defaults : {<<>>}] \cup
  [op : {"POST /skills"}, t : {"skills"},
   required : {{"profile", "skill_name"}}, defaults : {<<>>}] \cup
  [op : {"POST /case-studies"}, t : {"case_studies"},
   required : {{"title", "date"}}, defaults : {<<>>}] \cup
  [op : {"POST /guesstimates"}, t : {"guesstimates"}, required : {{"topic"}},
   defaults : {<<>>}] \cup
  [op : {"POST /case-competitions"}, t : {"case_competitions"},
   required : {{"competition_name"}}, defaults : {<<>>}]

IsCreate(r) == \E c \in CreateOps : c.op = r.op
CreateOf(r) == CHOOSE c \in CreateOps : c.op = r.op

OnlyChanged(ts, pre) == \A u \in Tables \ ts : db[u] = pre[u]

\* C6: a successful create with all required fields inserts exactly one row
\* and returns it; every supplied field has the supplied value, every omitted
\* optional field its documented default, and the row has a fresh id and a
\* creation timestamp.
C6_CreateReturnsInputPlusDefaults ==
  (IsCreate(Last) /\ Last.success) =>
     LET c == CreateOf(Last)
         row == Last.data
     IN /\ row \notin Last.pre[c.t]
        /\ db[c.t] = Last.pre[c.t] \cup {row}
        /\ OnlyChanged({c.t}, Last.pre)
        /\ \A k \in DOMAIN Last.body :
             Last.body[k] # "undefined" => row[k] = Last.body[k]
        /\ \A k \in DOMAIN c.defaults :
             Last.body[k] = "undefined" => row[k] = c.defaults[k]
        /\ \A r \in Last.pre[c.t] : r.id # row.id
        /\ row.created_at # "null"

\* C7: a create request that omits a required field is answered with 400 and
\* a failure envelope, issues no data-store call and leaves the store as it
\* was.
C7_CreateMissingFieldRejected ==
  (IsCreate(Last) /\ \E k \in CreateOf(Last).required : Last.body[k] = "undefined") =>
     /\ Last.status = 400
     /\ ~Last.success
     /\ Last.data = NullData
     /\ Last.error \notin {"null", "undefined", ""}
     /\ Last.calls = <<>>
     /\ db = Last.pre

\* a create request with exactly one required field missing was answered
\* while its table already held a row
C7_Witness ==
  /\ IsCreate(Last)
  /\ Cardinality({k \in CreateOf(Last).required : Last.body[k] = "undefined"}) = 1
  /\ Last.status = 400
  /\ Last.pre[CreateOf(Last).t] # {}

\* C5: each per-person daily-log table holds at most one row per date after
\* any sequence of POST, PUT and DELETE /daily-logs/<person> requests.
C5_DailyLogOneRowPerDate ==
  \A t \in {"daily_logs_piyush", "daily_logs_shruti"} :
    \A r1, r2 \in db[t] : r1.date = r2.date => r1 = r2

\* the list endpoints that require the profile query parameter
ProfileListOps == {"GET /todos", "GET /habits", "GET /habit-entries",
                   "GET /courses", "GET /certificates", "GET /projects",
                   "GET /skills"}

\* C8: a list request without the profile parameter, on an endpoint that
\* requires it, is answered with 400 and a failure envelope and issues no
\* data-store call.
C8_ListWithoutProfileRejected ==
  (Last.op \in ProfileListOps /\ Last.key = "undefined") =>
     /\ Last.status = 400
     /\ ~Last.success
     /\ Last.data = NullData
     /\ Last.error \notin {"null", "undefined", ""}
     /\ Last.calls = <<>>
     /\ db = Last.pre

\* GET /habit-entries without profile was rejected while habits existed
C8_Witness ==
  /\ Last.op = "GET /habit-entries"
  /\ Last.key = "undefined"
  /\ Last.status = 400
  /\ db.habits # {}

\* the PUT /<family>/:id endpoints and their tables
UpdateOps ==
  {<<"PUT /todos/:id", "todos">>, <<"PUT /habits/:id", "habits">>,
   <<"PUT /habit-entries/:id", "habit_entries">>,
   <<"PUT /daily-logs/piyush/:id", "daily_logs_piyush">>,
   <<"PUT /daily-logs/shruti/:id", "daily_logs_shruti">>,
   <<"PUT /contest-logs/:id", "contest_logs">>, <<"PUT /blind75/:id", "blind75">>,
   <<"PUT /courses/:id", "courses">>,
   <<"PUT /resume-sections/:id", "resume_sections">>,
   <<"PUT /projects/:id", "projects">>, <<"PUT /skills/:id", "skills">>,
   <<"PUT /case-studies/:id", "case_studies">>,
   <<"PUT /guesstimates/:id", "guesstimates">>,
   <<"PUT /case-competitions/:id", "case_competitions">>}

IsUpdate(r) == \E u \in UpdateOps : u[1] = r.op
UpdateTable(r) == (CHOOSE u \in UpdateOps : u[1] = r.op)[2]

\* C9: a successful PUT /<family>/:id sets exactly the supplied fields of the
\* row with that id, returns the row as stored, and changes no other field
\* of it and no other row of any table.
C9_UpdateChangesOnlySuppliedFields ==
  (IsUpdate(Last) /\ Last.success) =>
     LET t == UpdateTable(Last)
     IN /\ \E old \in Last.pre[t] :
             /\ old.id = Last.key
             /\ DOMAIN Last.data = DOMAIN old
             /\ \A c \in DOMAIN old :
                  Last.data[c] = IF c \in DOMAIN Last.body THEN Last.body[c]
                                 ELSE old[c]
             /\ db[t] = (Last.pre[t] \ {old}) \cup {Last.data}
        /\ OnlyChanged({t}, Last.pre)

\* a PUT succeeded on a table that holds another row as well
C9_Witness ==
  /\ IsUpdate(Last)
  /\ Last.success
  /\ Cardinality(Last.pre[UpdateTable(Last)]) >= 2
  /\ Last.data \notin Last.pre[UpdateTable(Last)]

\* the DELETE /<family>/:id endpoints and their tables
DeleteOps ==
  {<<"DELETE /todos/:id", "todos">>, <<"DELETE /habits/:id", "habits">>,
   <<"DELETE /daily-logs/piyush/:id", "daily_logs_piyush">>,
   <<"DELETE /daily-logs/shruti/:id", "daily_logs_shruti">>,
   <<"DELETE /contest-logs/:id", "contest_logs">>,
   <<"DELETE /blind75/:id", "blind75">>, <<"DELETE /courses/:id", "courses">>,
   <<"DELETE /certificates/:id", "certificates">>,
   <<"DELETE /projects/:id", "projects">>, <<"DELETE /skills/:id", "skills">>,
   <<"DELETE /case-studies/:id", "case_studies">>,
   <<"DELETE /guesstimates/:id", "guesstimates">>,
   <<"DELETE /case-competitions/:id", "case_competitions">>}

IsDelete(r) == \E u \in DeleteOps : u[1] = r.op
DeleteTable(r) == (CHOOSE u \in DeleteOps : u[1] = r.op)[2]

\* a delete of an existing id was answered with success
DeletedExisting(r) ==
  /\ IsDelete(r)
  /\ r.success
  /\ \E old \in r.pre[DeleteTable(r)] : old.id = r.key

\* a generated id that no row carries any more
Gone(i) == i < nextId /\ \A t \in Tables : \A r \in db[t] : r.id # ToString(i)

\* the list and get endpoints
ReadOps == {"GET /todos", "GET /habits", "GET /habit-entries",
            "GET /daily-logs/piyush", "GET /daily-logs/piyush/:date",
            "GET /daily-logs/shruti", "GET /daily-logs/shruti/:date",
            "GET /cp-ratings", "GET /contest-logs", "GET /a2z-progress",
            "GET /blind75", "GET /courses", "GET /certificates",
            "GET /resume-sections", "GET /projects", "GET /skills",
            "GET /case-studies", "GET /guesstimates", "GET /case-competitions"}

\* the reads that answer with one row, or null, rather than a list
SingleReadOps == {"GET /daily-logs/piyush/:date", "GET /daily-logs/shruti/:date",
                  "GET /a2z-progress"}

\* the ids of the rows a successful list or get returned
ReturnedIds(r) ==
  IF ~(r.op \in ReadOps /\ r.success) THEN {}
  ELSE IF r.op \in SingleReadOps
       THEN (IF "id" \in DOMAIN r.data THEN {r.data.id} ELSE {})
  ELSE {r.data[i].id : i \in DOMAIN r.data}

\* a response never returns a row whose id is gone, and an id that is gone
\* stays gone
AbsentFromLaterResults ==
  /\ [](\A i \in 1..MaxId : Gone(i) => ToString(i) \notin ReturnedIds(Last))
  /\ [][\A i \in 1..MaxId : Gone(i) => Gone(i)']_vars

\* C10 as stated: after a successful delete of an existing id the payload is
\* {id}, the row is gone from its table and from every later list or get,
\* and all other rows of all tables are unchanged.
C10_DeleteRemovesOnlyThatRow ==
  /\ [](DeletedExisting(Last) =>
          /\ Last.data = [id |-> Last.key]
          /\ db[DeleteTable(Last)] = {r \in Last.pre[DeleteTable(Last)] : r.id # Last.key}
          /\ OnlyChanged({DeleteTable(Last)}, Last.pre))
  /\ AbsentFromLaterResults

\* C10 (amended): as C10_DeleteRemovesOnlyThatRow, except that
\* DELETE /habits/:id may also remove habit_entries rows, and only rows
\* whose habit_id is the deleted id.
C10_DeleteRemovesOnlyThatRowOrItsEntries ==
  /\ [](DeletedExisting(Last) =>
          /\ Last.data = [id |-> Last.key]
          /\ db[DeleteTable(Last)] = {r \in Last.pre[DeleteTable(Last)] : r.id # Last.key}
          /\ IF Last.op = "DELETE /habits/:id"
             THEN /\ OnlyChanged({"habits", "habit_entries"}, Last.pre)
                  /\ db.habit_entries \subseteq Last.pre.habit_entries
                  /\ \A e \in Last.pre.habit_entries \ db.habit_entries :
                       e.habit_id = Last.key
             ELSE OnlyChanged({DeleteTable(Last)}, Last.pre))
  /\ AbsentFromLaterResults

\* a delete of an existing row succeeded and left another row of its table
C10_Witness ==
  /\ DeletedExisting(Last)
  /\ db[DeleteTable(Last)] # {}

\* a delete of an id that no row of the family's table carried
DeletedMissing(r) ==
  /\ IsDelete(r)
  /\ \A old \in r.pre[DeleteTable(r)] : old.id # r.key

\* a delete is answered with success and {id}, or with the data store's error
DeleteAnswer(r) ==
  IF r.success
  THEN r.status = 200 /\ r.data = [id |-> r.key] /\ r.error = "null"
  ELSE r.status = 500 /\ r.error = BackendDown(db).message

ByDateOps == {<<"GET /daily-logs/piyush/:date", "daily_logs_piyush">>,
              <<"GET /daily-logs/shruti/:date", "daily_logs_shruti">>}

IsByDate(r) == \E u \in ByDateOps : u[1] = r.op
ByDateRows(r) ==
  RowsWhere(r.pre, (CHOOSE u \in ByDateOps : u[1] = r.op)[2], "date", r.key)

\* the envelope {success: true, data: null, error: null} with status 200
NullSuccess(r) ==
  r.status = 200 /\ r.success /\ r.data = NullData /\ r.error = "null"

\* the envelope of a backend failure with status 500
BackendFailure(r) ==
  r.status = 500 /\ ~r.success /\ r.data = NullData /\ r.error = BackendDown(db).message

\* C12: a fetch by date for a date with no row is answered with 200 and
\* {success: true, data: null, error: null} unless the lookup fails otherwise;
\* every other error of the lookup is answered with 500, so the null success
\* is given for a date without a row only.
C12_ByDateNullOnlyWhenNoRow ==
  IsByDate(Last) =>
    /\ ByDateRows(Last) = {} => (NullSuccess(Last) \/ BackendFailure(Last))
    /\ NullSuccess(Last) => ByDateRows(Last) = {}

\* connection s holds a request one of whose calls has reported an error
CallFailed(s) == "failed" \in DOMAIN req[s] /\ req[s].failed # "null"

\* C13: once a call of a request has reported an error, the request issues no
\* further backend call and ends with 500 and a failure envelope that carries
\* that call's message.
C13_CallErrorEndsRequest ==
  [][\A s \in Slots :
       CallFailed(s) =>
         /\ db' = db
         /\ req'[s] = Idle =>
              /\ resp'[s].status = 500
              /\ ~resp'[s].success
              /\ resp'[s].error = req[s].failed
              /\ resp'[s].calls = req[s].calls]_vars

\* the fields of a response that are not part of its JSON body
Meta == {"op", "key", "body", "status", "calls", "pre"}
JsonFields(r) == DOMAIN r \ Meta

\* the lists, whose payload is a sequence of rows
ListOps == ReadOps \ SingleReadOps

\* the payload of a success is there
Populated(r) == r.op \in ListOps \/ r.data # NullData

\* a failure envelope: no data, a message, status 400 or 500
FailureEnvelope(r) ==
  /\ r.data = NullData
  /\ r.error \notin {"null", "undefined", ""}
  /\ r.status \in {400, 500}

\* C14 as stated: every response, the health check's included, has exactly
\* the fields success, data and error; a success has error null and data
\* populated; a failure has data null, a message and status 400 or 500.
C14_EveryResponseIsEnvelope ==
  \A s \in Slots : resp[s] # NoResp =>
    /\ JsonFields(resp[s]) = {"success", "data", "error"}
    /\ IF resp[s].success
       THEN resp[s].error = "null" /\ Populated(resp[s])
       ELSE FailureEnvelope(resp[s])

\* C14 (amended): every response but the health check's has exactly the
\* fields success, data and error; a success has status 200, error null and
\* data populated, except that a fetch by date answers a date without a
\* single row with data null; a failure has data null, a message and status
\* 400 or 500. GET / answers 200 with success, message and timestamp.
C14_EveryResponseButHealthIsEnvelope ==
  \A s \in Slots : resp[s] # NoResp =>
    IF resp[s].op = "GET /"
    THEN /\ JsonFields(resp[s]) = {"success", "message", "timestamp"}
         /\ resp[s].success /\ resp[s].status = 200
    ELSE /\ JsonFields(resp[s]) = {"success", "data", "error"}
         /\ IF resp[s].success
            THEN /\ resp[s].status = 200
                 /\ resp[s].error = "null"
                 /\ IsByDate(resp[s]) \/ Populated(resp[s])
            ELSE FailureEnvelope(resp[s])

\* a fetch by date was answered with the null success
C14_Witness == IsByDate(Last) /\ NullSuccess(Last)

\* the upload endpoints and their buckets
UploadOps == {<<"POST /upload/certificate", "storage/certificates">>,
              <<"POST /upload/case-competition-doc", "storage/documents">>}

\* a valid upload was answered
IsUpload(r) == (\E u \in UploadOps : u[1] = r.op) /\ r.status # 400
UploadBucket(r) == (CHOOSE u \in UploadOps : u[1] = r.op)[2]

\* the object the request sent
Uploaded(r) == [path |-> r.key, content |-> FromBase64(r.body.fileBase64)]

\* an upload whose path was taken when it arrived
Collided(r) == IsUpload(r) /\ ObjectsAt(r.pre, UploadBucket(r), r.key) # {}

\* C15: an upload whose path is that of a stored object is answered with 500
\* and leaves the store as it was; an upload whose path is free, as it is for
\* a file name uploaded again at another timestamp, stores its object at
\* that path next to the others and succeeds unless the store is down; and
\* no stored object is ever replaced or removed.
C15_UploadNeverReplaces ==
  /\ [](IsUpload(Last) =>
          IF Collided(Last)
          THEN /\ Last.status = 500 /\ ~Last.success /\ Last.data = NullData
               /\ db = Last.pre
          ELSE \/ BackendFailure(Last) /\ db = Last.pre
               \/ /\ Last.success
                  /\ Last.data.path = Last.key
                  /\ Last.data.file_url = PublicUrl(UploadBucket(Last), Last.key)
                  /\ db = [Last.pre EXCEPT ![UploadBucket(Last)] = @ \cup {Uploaded(Last)}])
  /\ [][\A b \in Buckets : db[b] \subseteq db'[b]]_vars

\* an upload of other content for a taken path was refused, after the same
\* file name had been stored at two timestamps
C15_Witness ==
  /\ Collided(Last)
  /\ Last.status = 500
  /\ Uploaded(Last) \notin db[UploadBucket(Last)]
  /\ Cardinality(db[UploadBucket(Last)]) = 2

\* C16: whenever no request is in flight, every habit_entries row has the id
\* of an existing habits row as its habit_id.
C16_EveryEntryHasItsHabit ==
  Quiet => \A e \in db.habit_entries : \E h \in db.habits : h.id = e.habit_id

-----------------------------------------------------------------------------
(* Two overlapping requests on a store that holds rows *)

\* the rows in the store when the two requests arrive
PairSeed ==
  [EmptyDb EXCEPT
     !["habits"] = {[id |-> "h1", profile |-> "piyush", name |-> "run",
                     sort_order |-> "0", created_at |-> "0"],
                    [id |-> "h2", profile |-> "piyush", name |-> "walk",
                     sort_order |-> "1", created_at |-> "0"]},
     !["habit_entries"] = {[id |-> "e1", habit_id |-> "h1", date |-> "2024-01-01",
                            completed |-> "true", created_at |-> "0"],
                           [id |-> "e2", habit_id |-> "h2", date |-> "2024-01-02",
                            completed |-> "false", created_at |-> "0"]},
     !["cp_ratings"] = {[id |-> "c1", platform |-> "codeforces", rating |-> "0",
                         updated_at |-> "0", created_at |-> "0"]}]

InitPair ==
  /\ db = PairSeed
  /\ nextId = 1
  /\ clock = 1
  /\ req = [s \in Slots |-> Idle]
  /\ resp = [s \in Slots |-> NoResp]

\* the two connections
Pair == {1, 2}
Other(s) == 3 - s

PairHabitIds == {"h1", "h2"}
PairEntryBody == [habit_id |-> "h1", date |-> "2024-01-02", completed |-> "true"]
PairEntryUpdates == {[completed |-> "true"], [habit_id |-> "h1"]}
PairEntryIds == {"e1", "e2"}
NoRange == [from |-> "undefined", to |-> "undefined"]

\* what connection s holds: its request in flight, else its last response
Held(s) == IF req[s] # Idle THEN req[s] ELSE resp[s]

\* the resource family of an endpoint
FamilyOf(op) ==
  CASE op \in {"DELETE /habits/:id"} -> "habits"
    [] op \in {"GET /habit-entries", "POST /habit-entries",
               "PUT /habit-entries/:id"} -> "habit-entries"
    [] op = "PUT /cp-ratings/:platform" -> "cp-ratings"
    [] OTHER -> "none"

\* the endpoints that address one row by id or by natural key
Keyed(op) == op \in {"DELETE /habits/:id", "PUT /habit-entries/:id",
                     "PUT /cp-ratings/:platform"}

\* a request op, key may overlap with what the other connection holds: the
\* two go to different families, or to different rows of one family
Independent(op, key, h) ==
  \/ h.op = "none"
  \/ FamilyOf(op) # FamilyOf(h.op)
  \/ Keyed(op) /\ Keyed(h.op) /\ key # h.key

\* connection s takes the request op, key
Takes(s, op, key) == Unused(s) /\ Independent(op, key, Held(Other(s)))

NextPair ==
  \/ \E s \in Pair, id \in PairHabitIds :
       Takes(s, "DELETE /habits/:id", id) /\ DeleteHabitsPurge(s, id)
  \/ \E s \in Pair : DeleteHabitsFinish(s)
  \/ \E s \in Pair :
       Takes(s, "GET /habit-entries", "piyush")
         /\ GetHabitEntriesHabits(s, "piyush", NoRange.from, NoRange.to)
  \/ \E s \in Pair : GetHabitEntriesEntries(s)
  \/ \E s \in Pair :
       Takes(s, "POST /habit-entries", "") /\ PostHabitEntries(s, PairEntryBody)
  \/ \E s \in Pair, id \in PairEntryIds, updates \in PairEntryUpdates :
       Takes(s, "PUT /habit-entries/:id", id) /\ PutHabitEntries(s, id, updates)
  \/ \E s \in Pair, p \in Platforms :
       Takes(s, "PUT /cp-ratings/:platform", p) /\ PutCpRatingsLookup(s, p, "1500")
  \/ \E s \in Pair : PutCpRatingsWrite(s)

SpecPair == InitPair /\ [][NextPair]_vars

\* what a client sees of a response, with the payload of a list kept apart
\* from the payload of the other endpoints
Seen(op, status, data, error) ==
  [op |-> op, status |-> status, error |-> error,
   rows |-> IF op \in ListOps /\ status = 200 THEN data ELSE <<>>,
   item |-> IF op \in ListOps /\ status = 200 THEN NullData ELSE data]

SeenOf(r) == Seen(r.op, r.status, r.data, r.error)

\* the outcome of a request served alone: the store, the id counter and the
\* response it leaves
Outcome(d, n, seen) == [db |-> d, nextId |-> n, seen |-> seen]

\* the outcome of a call that ends the request
Ends(op, r, n, data) == Outcome(r.db, n, Seen(op, StatusOf(r), data, ErrorOf(r)))

\* DELETE /habits/:id served alone on the store d
AloneDeleteHabits(q, d, n) ==
  {LET purge == Delete(d, "habit_entries", "habit_id", q.key, f1)
       r == Delete(purge.db, "habits", "id", q.key, f2)
   IN Ends(q.op, r, n, IF r.ok THEN [id |-> q.key] ELSE NullData) :
   f1 \in BOOLEAN, f2 \in BOOLEAN}

\* GET /habit-entries?profile= served alone, without from and to
AloneGetHabitEntries(q, d, n) ==
  LET habitIds == {h.id : h \in RowsWhere(d, "habits", "profile", q.key)}
      hit == {e \in d.habit_entries : e.habit_id \in habitIds}
      down == Outcome(d, n, Seen(q.op, 500, NullData, BackendDown(d).message))
  IN {down} \cup
     (IF habitIds = {} THEN {Outcome(d, n, Seen(q.op, 200, <<>>, "null"))}
      ELSE {Outcome(d, n, Seen(q.op, 200, rows, "null")) :
              rows \in Ordered(hit, "date", FALSE)})

\* POST /habit-entries served alone, with a complete body
AlonePostHabitEntries(q, d, n) ==
  {LET r == Insert(d, "habit_entries",
                   [habit_id |-> q.body.habit_id, date |-> q.body.date,
                    completed |-> OrElse(q.body.completed, "false")],
                   n, clock, fail)
   IN Ends(q.op, r, IF r.ok THEN n + 1 ELSE n, r.data) : fail \in BOOLEAN}

\* PUT /habit-entries/:id served alone
AlonePutHabitEntries(q, d, n) ==
  {LET r == Update(d, "habit_entries", q.body, "id", q.key, fail)
   IN Ends(q.op, r, n, r.data) : fail \in BOOLEAN}

\* PUT /cp-ratings/:platform served alone, with a rating
AlonePutCpRatings(q, d, n) ==
  {LET existing == SelectSingle(d, RowsWhere(d, "cp_ratings", "platform", q.key), f1).data
       r == IF existing # NullData
            THEN Update(d, "cp_ratings",
                        [rating |-> q.body.rating, updated_at |-> ToString(clock)],
                        "platform", q.key, f2)
            ELSE Insert(d, "cp_ratings",
                        [platform |-> q.key, rating |-> q.body.rating], n, clock, f2)
   IN Ends(q.op, r, IF r.ok /\ existing = NullData THEN n + 1 ELSE n, r.data) :
   f1 \in BOOLEAN, f2 \in BOOLEAN}

\* the outcomes of the request q served alone on the store d
Alone(q, d, n) ==
  CASE q.op = "DELETE /habits/:id" -> AloneDeleteHabits(q, d, n)
    [] q.op = "GET /habit-entries" -> AloneGetHabitEntries(q, d, n)
    [] q.op = "POST /habit-entries" -> AlonePostHabitEntries(q, d, n)
    [] q.op = "PUT /habit-entries/:id" -> AlonePutHabitEntries(q, d, n)
    [] q.op = "PUT /cp-ratings/:platform" -> AlonePutCpRatings(q, d, n)

\* both connections have answered
BothAnswered == \A s \in Pair : req[s] = Idle /\ resp[s] # NoResp

\* the store and the two responses are those of serving first, then second,
\* one after the other from the seeded store
AsInOrder(first, second) ==
  \E a \in Alone(resp[first], PairSeed, 1) :
    /\ a.seen = SeenOf(resp[first])
    /\ \E b \in Alone(resp[second], a.db, a.nextId) :
         /\ b.seen = SeenOf(resp[second])
         /\ b.db = db

\* C17: two overlapping requests to different families, or to different
\* rows of one family, leave the store and get the responses that serving
\* them one after the other, in one of the two orders, can give.
C17_IndependentRequestsSerialize ==
  BothAnswered => (AsInOrder(1, 2) \/ AsInOrder(2, 1))

\* GET /habit-entries read the habits before DELETE /habits/:id purged the
\* entries and read the entries after it
C17_Witness ==
  /\ BothAnswered
  /\ resp[1].op = "GET /habit-entries" /\ resp[1].success
  /\ resp[2].op = "DELETE /habits/:id" /\ resp[2].success
  /\ RowsWhere(resp[2].pre, "habits", "id", resp[2].key) # {}
  /\ resp[1].pre = PairSeed /\ resp[2].pre = PairSeed
  /\ Len(resp[1].data) = 1

\* connection s takes the step that sends DELETE /habits/:id's purge
PurgeStep(s) == req[s] = Idle /\ req'[s].op = "DELETE /habits/:id"

\* connection s takes the step that sends its habit-row delete and answers
FinishStep(s) == req[s].op = "DELETE /habits/:id" /\ req'[s] = Idle

\* C18: DELETE /habits/:id sends the habit-row delete after the purge has
\* completed: the purge step leaves habits alone and answers nothing, and a
\* purge that reported no error has removed the habit's entries and no
\* others. The second step leaves the entries as the purge left them; when
\* the habit-row delete reports an error the answer is 500 and the store
\* stays as the purge left it, the habit row present and the purge not
\* undone.
C18_HabitDeleteIsTwoSteps ==
  [][\A s \in Slots :
       /\ PurgeStep(s) =>
            /\ db'.habits = db.habits
            /\ resp'[s] = NoResp
            /\ req'[s].calls = <<<<"delete", "habit_entries">>>>
            /\ req'[s].failed = "null" =>
                 db' = [db EXCEPT !["habit_entries"] =
                          {e \in @ : e.habit_id # req'[s].key}]
       /\ FinishStep(s) =>
            /\ resp'[s].calls = <<<<"delete", "habit_entries">>, <<"delete", "habits">>>>
            /\ db'.habit_entries = db.habit_entries
            /\ IF resp'[s].success
               THEN db' = [db EXCEPT !["habits"] = {h \in @ : h.id # req[s].key}]
               ELSE resp'[s].status = 500 /\ db' = db]_vars

\* the habit-row delete failed after the purge had removed the entries: the
\* habit is there, its entries are not
C18_Witness ==
  /\ Last.op = "DELETE /habits/:id"
  /\ Last.status = 500
  /\ RowsWhere(Last.pre, "habit_entries", "habit_id", Last.key) # {}
  /\ RowsWhere(db, "habits", "id", Last.key) # {}
  /\ RowsWhere(db, "habit_entries", "habit_id", Last.key) = {}

\* a PUT /<family>/:id for an id that no row of the family's table carried
UpdatedMissing(r) ==
  /\ IsUpdate(r)
  /\ \A old \in r.pre[UpdateTable(r)] : old.id # r.key

\* C19 as stated: a PUT /<family>/:id for an id that matches no row is
\* answered with a success envelope, unless the data store is down, and
\* changes no row.
C19_UpdateOfMissingIdSucceeds ==
  UpdatedMissing(Last) =>
    /\ Last.success \/ BackendFailure(Last)
    /\ db = Last.pre

\* C19 (amended): a PUT /<family>/:id for an id that matches no row is
\* answered with 500 and a failure envelope, whose message is that of
\* .single() finding no row unless the data store is down, and changes no
\* row.
C19_UpdateOfMissingIdFails ==
  UpdatedMissing(Last) =>
    /\ Last.status = 500 /\ ~Last.success /\ Last.data = NullData
    /\ Last.error \in {NotSingle(db).message, BackendDown(db).message}
    /\ Last.calls = <<<<"update", UpdateTable(Last)>>>>
    /\ db = Last.pre

\* a PUT for an id that matches no row was refused by .single() while the
\* table held a row
C19_Witness ==
  /\ UpdatedMissing(Last)
  /\ Last.error = NotSingle(db).message
  /\ Last.pre[UpdateTable(Last)] # {}

\* C20: GET /a2z-progress goes on to its insert only when a2z_progress holds
\* no row, and the row it inserts has the six counters at 0; when the table
\* holds one or more rows the request inserts nothing and leaves the number
\* of rows as it was.
C20_A2zGetInsertsOnlyIntoEmptyTable ==
  /\ \A s \in Slots :
       req[s].op = "GET /a2z-progress" => req[s].pre.a2z_progress = {}
  /\ Last.op = "GET /a2z-progress" =>
       IF Last.pre.a2z_progress = {}
       THEN db.a2z_progress \in
              {{}} \cup {{NewRow("a2z_progress", A2zDefaults, i, c)} :
                          i \in 1..MaxId, c \in 1..MaxClock}
       ELSE /\ db = Last.pre
            /\ Last.calls = <<<<"select", "a2z_progress">>>>

-----------------------------------------------------------------------------
(* Overlapping requests on /a2z-progress *)

\* overlapping GET and PUT /a2z-progress requests, each on a connection of
\* its own
NextA2z ==
  \/ \E s \in Slots : NextFree(s) /\ GetA2zProgressLookup(s)
  \/ \E s \in Slots : GetA2zProgressInsert(s)
  \/ \E s \in Slots, u \in A2zUpdates : NextFree(s) /\ PutA2zProgressLookup(s, u)
  \/ \E s \in Slots : PutA2zProgressWrite(s)

SpecA2z == Init /\ [][NextA2z]_vars

A2zOps == {"GET /a2z-progress", "PUT /a2z-progress"}

\* a successful request on /a2z-progress on connection s that arrived when
\* the table held no row
A2zOnEmpty(s) ==
  /\ resp[s].op \in A2zOps
  /\ resp[s].success
  /\ resp[s].pre.a2z_progress = {}

\* C21: two requests on /a2z-progress, each a GET or a PUT, that both
\* arrived while the table held no row, so that both lookups ran before
\* either insert, and that both answered with success, have both inserted:
\* a2z_progress then holds at least two rows.
C21_ConcurrentA2zRequestsInsertTwice ==
  \A s1, s2 \in Slots :
    (s1 # s2 /\ A2zOnEmpty(s1) /\ A2zOnEmpty(s2)) =>
      /\ resp[s1].calls = <<<<"select", "a2z_progress">>, <<"insert", "a2z_progress">>>>
      /\ resp[s2].calls = <<<<"select", "a2z_progress">>, <<"insert", "a2z_progress">>>>
      /\ Cardinality(db.a2z_progress) >= 2

\* a GET and a PUT overlapped on the empty table and left two rows
C21_Witness ==
  /\ A2zOnEmpty(1) /\ resp[1].op = "GET /a2z-progress"
  /\ A2zOnEmpty(2) /\ resp[2].op = "PUT /a2z-progress"
  /\ Cardinality(db.a2z_progress) = 2

-----------------------------------------------------------------------------
(* Reading habit entries from a store that holds rows *)

\* the from and to parameters of GET /habit-entries
EntryRanges == DateRanges \cup {[from |-> "2024-01-01", to |-> "2024-01-01"]}

\* one request at a time on habits and habit entries, from the seeded store
NextEntries ==
  \/ Quiet /\ \E profile \in ProfileParams, range \in EntryRanges :
       GetHabitEntriesHabits(1, profile, range.from, range.to)
  \/ GetHabitEntriesEntries(1)
  \/ Quiet /\ PostHabitEntries(1, PairEntryBody)
  \/ Quiet /\ \E id \in PairEntryIds, updates \in PairEntryUpdates :
       PutHabitEntries(1, id, updates)
  \/ Quiet /\ \E id \in PairHabitIds : DeleteHabitsPurge(1, id)
  \/ DeleteHabitsFinish(1)

SpecEntries == InitPair /\ [][NextEntries]_vars

\* the ids of the habits of a profile
HabitIdsOf(d, profile) == {h.id : h \in RowsWhere(d, "habits", "profile", profile)}

\* the date d lies within from and to, where they are given
Within(d, from, to) ==
  /\ from = "undefined" \/ Rank(from) <= Rank(d)
  /\ to = "undefined" \/ Rank(d) <= Rank(to)

\* the sequence lists the rows of the set once each, latest date first
ListsByDateDescending(seq, rows) ==
  /\ Len(seq) = Cardinality(rows)
  /\ {seq[i] : i \in DOMAIN seq} = rows
  /\ \A i, j \in DOMAIN seq : i < j => Rank(seq[i].date) >= Rank(seq[j].date)

\* connection s answers a GET /habit-entries with success in this step
ListedEntries(s) ==
  /\ resp'[s].op = "GET /habit-entries"
  /\ resp'[s].success
  /\ \/ resp'[s].op # resp[s].op
     \/ resp'[s].status # resp[s].status
     \/ resp'[s].key # resp[s].key
     \/ resp'[s].pre # resp[s].pre
     \/ resp'[s].data # resp[s].data

\* C22: a successful GET /habit-entries returns, latest date first, exactly
\* the habit_entries rows whose habit_id is the id of a habit that had the
\* profile when the habits were read and whose date lies within from and
\* to; for a profile without habits it answers the empty list from the
\* first step, without a select on habit_entries.
C22_HabitEntriesOfProfileInRange ==
  [][\A s \in Slots :
       /\ (req[s] = Idle /\ req'[s].op = "GET /habit-entries") =>
            /\ req'[s].habitIds = HabitIdsOf(db, req'[s].key)
            /\ req'[s].habitIds # {}
       /\ (req[s] = Idle /\ ListedEntries(s)) =>
            /\ HabitIdsOf(db, resp'[s].key) = {}
            /\ resp'[s].data = <<>>
            /\ resp'[s].calls = <<<<"select", "habits">>>>
       /\ (req[s].op = "GET /habit-entries" /\ ListedEntries(s)) =>
            /\ resp'[s].calls = <<<<"select", "habits">>, <<"select", "habit_entries">>>>
            /\ ListsByDateDescending(
                 resp'[s].data,
                 {e \in db.habit_entries :
                    /\ e.habit_id \in req[s].habitIds
                    /\ Within(e.date, req[s].from, req[s].to)})]_vars

\* a GET /habit-entries with a to parameter returned some but not all of
\* the entries of the profile's habits
C22_Witness ==
  /\ Last.op = "GET /habit-entries"
  /\ Last.success
  /\ Len(Last.data) >= 1
  /\ \E e \in db.habit_entries :
       /\ e.habit_id \in HabitIdsOf(db, Last.key)
       /\ \A i \in DOMAIN Last.data : Last.data[i] # e
       /\ \A i \in DOMAIN Last.data : Rank(Last.data[i].date) < Rank(e.date)

-----------------------------------------------------------------------------
(* Daily logs created through POST and fetched by date *)

\* one request at a time: POST /daily-logs/<person>, GET /daily-logs/<person>
\* and GET /daily-logs/<person>/:date
NextDailyLogs ==
  \/ Quiet /\ \E body \in Complete(DailyLogPiyushBodies) : PostDailyLogsPiyush(1, body)
  \/ Quiet /\ \E body \in Complete(DailyLogShrutiBodies) : PostDailyLogsShruti(1, body)
  \/ Quiet /\ \E date \in Dates : GetDailyLogsPiyushByDate(1, date)
  \/ Quiet /\ \E date \in Dates : GetDailyLogsShrutiByDate(1, date)
  \/ Quiet /\ GetDailyLogsPiyush(1)
  \/ Quiet /\ GetDailyLogsShruti(1)
  \/ Tick

SpecDailyLogs == Init /\ [][NextDailyLogs]_vars

\* C23: in every state reached through POST /daily-logs/<person>, a fetch by
\* date answered with success returns one of the rows with that date
\* whenever the person's table holds such a row, so null data is returned
\* only for a date without a row.
C23_ByDateReturnsRowWhenPresent ==
  (IsByDate(Last) /\ Last.success /\ ByDateRows(Last) # {}) =>
    Last.data \in ByDateRows(Last)

-----------------------------------------------------------------------------
(* Reads leave the store alone *)

\* the GET endpoints other than GET /a2z-progress
ReadOnlyOps == (ReadOps \ {"GET /a2z-progress"}) \cup {"GET /"}

\* with one request at a time, this step belongs to one of those endpoints:
\* either step of GET /habit-entries, or a GET that is answered in one step
ReadStep ==
  \/ req[1] = Idle /\ req'[1].op = "GET /habit-entries"
  \/ req[1].op = "GET /habit-entries"
  \/ req[1] = Idle /\ req'[1] = Idle /\ resp'[1].op \in ReadOnlyOps

\* the store calls of the request after this step
CallsSoFar == IF req'[1] = Idle THEN resp'[1].calls ELSE req'[1].calls

\* C24: every step of a GET handler other than GET /a2z-progress issues
\* select calls only and leaves the tables and the buckets as they were,
\* whatever the response is.
C24_ReadsChangeNothing ==
  [][ReadStep =>
       /\ db' = db
       /\ \A i \in DOMAIN CallsSoFar : CallsSoFar[i][1] = "select"
       /\ req'[1] = Idle => resp'[1].pre = db]_vars

\* a fetch by date was answered with a failure while the table held rows,
\* and the store is as it was when the request arrived
C24_Witness ==
  /\ req[1] = Idle
  /\ IsByDate(Last)
  /\ ~Last.success
  /\ ByDateRows(Last) # {}
  /\ db = Last.pre

-----------------------------------------------------------------------------
(* Failed requests *)

\* the last request was answered with HTTP 400 or 500 and success false
FailedRequest ==
  /\ req[1] = Idle
  /\ Last.op \notin {"none", "GET /"}
  /\ ~Last.success
  /\ Last.status \in {400, 500}

\* C25: with one request at a time, after a request to any handler other
\* than DELETE /habits/:id was answered with a failure envelope, the tables
\* and the buckets are as they were when the request arrived.
C25_FailureLeavesStoreAsItWas ==
  (FailedRequest /\ Last.op # "DELETE /habits/:id") => db = Last.pre

\* a PUT /cp-ratings/:platform failed on its second call, after the lookup,
\* while the table held rows
C25_Witness ==
  /\ FailedRequest
  /\ Last.op = "PUT /cp-ratings/:platform"
  /\ Len(Last.calls) = 2
  /\ db.cp_ratings # {}
  /\ db = Last.pre

====
